---- MODULE Spec2Model ----
(***************************************************************************)
(* Model of the recommendation core of leve-agents (src/reco): catalog     *)
(* normalisation, business ranking, output assembly and the final          *)
(* business-rule validator, composed as the pipeline of reco/pipeline.py.  *)
(*                                                                         *)
(* Conventions                                                             *)
(*  - A Python str is a sequence of characters, each written as a short   *)
(*    string ("a", "L"; an accented letter as the letter and its mark:     *)
(*    "o'" is o-acute, "a~" a-tilde, "e^" e-circumflex, "c," c-cedilla;    *)
(*    "--" is the em dash), so that strip,                                 *)
(*    casefold, accent-stripping and tokenising are computed, not assumed. *)
(*  - A score is an integer number of hundredths (0.72 is 72).             *)
(*  - A UUID is a natural number k >= 1; the order of the canonical        *)
(*    str(UUID) texts is the order of the numbers.                         *)
(***************************************************************************)
EXTENDS Integers, Sequences, FiniteSets, TLC

VARIABLES
    pc,                \* position of the modelled call
    user_question,     \* TrailInput.user_question of a pipeline run
    raw_trails,        \* raw catalog records (input of to_candidates)
    candidates,        \* normalised candidates
    scored_candidates, \* input of rank(): scored items (legacy or hybrid)
    query_text,        \* query text handed to rank()/build_output()
    collection,        \* "trilhas" | "vagas"
    max_results,       \* max_results argument (0 stands for None)
    ranked,            \* list returned by rank()
    reasons_by_id,     \* publicId -> why_match
    output,            \* envelope returned by build_output
    final_output,      \* envelope returned by apply_business_rules
    stages,            \* pipeline stages executed so far, in order
    arg,               \* arguments of a function called on its own
    ret,               \* what that call returned (or the error it raised)
    vindex             \* a VectorIndex: its ids, vectors and metadata

\* the state of a pipeline run
runVars == <<pc, user_question, raw_trails, candidates, scored_candidates, query_text,
             collection, max_results, ranked, reasons_by_id, output, final_output,
             stages>>

\* the state of a call made outside a run
callVars == <<arg, ret, vindex>>

vars == <<pc, user_question, raw_trails, candidates, scored_candidates, query_text,
          collection, max_results, ranked, reasons_by_id, output, final_output,
          stages, arg, ret, vindex>>

-----------------------------------------------------------------------------
(* Characters and strings                                                  *)

UpperChars == <<"A","B","C","D","E","F","G","H","I","J","K","L","M",
                "N","O","P","Q","R","S","T","U","V","W","X","Y","Z">>
LowerChars == <<"a","b","c","d","e","f","g","h","i","j","k","l","m",
                "n","o","p","q","r","s","t","u","v","w","x","y","z">>
Digits == <<"0","1","2","3","4","5","6","7","8","9">>

IndexIn(c, tbl) ==
    IF \E i \in DOMAIN tbl : tbl[i] = c
    THEN CHOOSE i \in DOMAIN tbl : tbl[i] = c
    ELSE 0

\* str.casefold() / str.lower() on one character (they agree on this alphabet)
CasefoldCh(c) ==
    IF IndexIn(c, UpperChars) > 0 THEN LowerChars[IndexIn(c, UpperChars)]
    ELSE CASE c = "O'" -> "o'"
           [] c = "A'" -> "a'"
           [] c = "A~" -> "a~"
           [] c = "C," -> "c,"
           [] c = "E'" -> "e'"
           [] c = "E^" -> "e^"
           [] c = "I'" -> "i'"
           [] c = "U'" -> "u'"
           [] OTHER -> c

\* unicodedata.normalize("NFKD", ch) with the combining marks dropped
StripAccentsCh(c) ==
    CASE c = "o'" -> "o"
      [] c = "O'" -> "O"
      [] c = "a'" -> "a"
      [] c = "A'" -> "A"
      [] c = "c," -> "c"
      [] c = "a~" -> "a"
      [] c = "e'" -> "e"
      [] c = "e^" -> "e"
      [] c = "i'" -> "i"
      [] c = "u'" -> "u"
      [] c = "A~" -> "A"
      [] c = "C," -> "C"
      [] c = "E'" -> "E"
      [] c = "E^" -> "E"
      [] c = "I'" -> "I"
      [] c = "U'" -> "U"
      [] OTHER -> c

\* Unicode code point, the order Python compares strings by
CodePoint(c) ==
    IF IndexIn(c, UpperChars) > 0 THEN 64 + IndexIn(c, UpperChars)
    ELSE IF IndexIn(c, LowerChars) > 0 THEN 96 + IndexIn(c, LowerChars)
    ELSE IF IndexIn(c, Digits) > 0 THEN 47 + IndexIn(c, Digits)
    ELSE CASE c = " " -> 32
           [] c = "(" -> 40
           [] c = ")" -> 41
           [] c = "," -> 44
           [] c = "." -> 46
           [] c = ";" -> 59
           [] c = "|" -> 124
           [] c = "A'" -> 193
           [] c = "A~" -> 195
           [] c = "C," -> 199
           [] c = "E'" -> 201
           [] c = "E^" -> 202
           [] c = "I'" -> 205
           [] c = "O'" -> 211
           [] c = "U'" -> 218
           [] c = "a'" -> 225
           [] c = "a~" -> 227
           [] c = "c," -> 231
           [] c = "e'" -> 233
           [] c = "e^" -> 234
           [] c = "i'" -> 237
           [] c = "o'" -> 243
           [] c = "u'" -> 250
           [] c = "--" -> 8212
           [] OTHER -> 0

\* the character class of _WORD_RE: letters a-z, A-Z, U+00C0..U+00FF without
\* the signs U+00D7 and U+00F7, and digits
IsWordCh(c) ==
    \/ IndexIn(c, UpperChars) > 0
    \/ IndexIn(c, LowerChars) > 0
    \/ IndexIn(c, Digits) > 0
    \/ (CodePoint(c) >= 192 /\ CodePoint(c) <= 255
        /\ CodePoint(c) # 215 /\ CodePoint(c) # 247)

MapStr(F(_), s) == [i \in 1..Len(s) |-> F(s[i])]

Casefold(s) == MapStr(CasefoldCh, s)

\* ranker._strip_accents
_strip_accents(s) == MapStr(StripAccentsCh, s)

RECURSIVE LStrip(_)
LStrip(s) == IF s # <<>> /\ Head(s) = " " THEN LStrip(Tail(s)) ELSE s

RECURSIVE RStrip(_)
RStrip(s) ==
    IF s # <<>> /\ s[Len(s)] = " " THEN RStrip(SubSeq(s, 1, Len(s) - 1)) ELSE s

\* str.strip()
Strip(s) == RStrip(LStrip(s))

\* Python's  needle in hay  for strings
Contains(hay, needle) ==
    \E i \in 0..(Len(hay) - Len(needle)) :
        SubSeq(hay, i + 1, i + Len(needle)) = needle

\* Python's  a < b  for strings (lexicographic by code point)
RECURSIVE StrLess(_, _)
StrLess(a, b) ==
    IF b = <<>> THEN FALSE
    ELSE IF a = <<>> THEN TRUE
    ELSE IF CodePoint(Head(a)) # CodePoint(Head(b))
         THEN CodePoint(Head(a)) < CodePoint(Head(b))
    ELSE StrLess(Tail(a), Tail(b))

RECURSIVE Concat(_)
Concat(parts) == IF parts = <<>> THEN <<>> ELSE Head(parts) \o Concat(Tail(parts))

\* sep.join(parts)
RECURSIVE Join(_, _)
Join(sep, parts) ==
    IF parts = <<>> THEN <<>>
    ELSE IF Len(parts) = 1 THEN parts[1]
    ELSE parts[1] \o sep \o Join(sep, Tail(parts))

\* _WORD_RE.finditer(text): the maximal runs of word characters, in order
RECURSIVE WordRuns(_, _)
\* one match of _WORD_RE: the n leading word characters of s end the run cur
WordRunsAt(s, cur, n) ==
    (IF cur \o SubSeq(s, 1, n) = <<>> THEN <<>> ELSE <<cur \o SubSeq(s, 1, n)>>)
    \o (IF n = Len(s) THEN <<>>
        ELSE WordRuns(SubSeq(s, n + 2, Len(s)), <<>>))

WordRuns(s, cur) ==
    WordRunsAt(s, cur,
               Cardinality({k \in 1..Len(s) : \A i \in 1..k : IsWordCh(s[i])}))

\* ranker._tokenize: accent-insensitive, case-insensitive tokens
_tokenize(text) ==
    IF text = <<>> THEN <<>>
    ELSE WordRuns(Casefold(_strip_accents(text)), <<>>)

Range(s) == {s[i] : i \in DOMAIN s}

SeqFilter(s, T(_)) ==
    LET RECURSIVE F(_)
        F(r) == IF r = <<>> THEN <<>>
                ELSE IF T(Head(r)) THEN <<Head(r)>> \o F(Tail(r))
                ELSE F(Tail(r))
    IN F(s)

\* list.sort(key=...) for a key under which Less is a strict order: stable
\* insertion of each element after the elements that are not greater
SortedBy(s, Less(_, _)) ==
    LET RECURSIVE Ins(_, _)
        Ins(x, r) == IF r = <<>> THEN <<x>>
                     ELSE IF Less(x, Head(r)) THEN <<x>> \o r
                     ELSE <<Head(r)>> \o Ins(x, Tail(r))
        RECURSIVE Srt(_)
        Srt(r) == IF r = <<>> THEN <<>>
                  ELSE Ins(r[Len(r)], Srt(SubSeq(r, 1, Len(r) - 1)))
    IN Srt(s)

-----------------------------------------------------------------------------
(* reco/config.py: RecoConfig defaults (scores in hundredths)              *)

MAX_SUGGESTIONS == 3
TAG_BOOST == 10
BEGINNER_BOOST == 5
TITLE_DESC_BOOST == 15
SCORE_CAP == 99
DOMINANCE_MIN_ACCEPT == 60
MATCH_THRESHOLD_TRILHAS == 72
MATCH_THRESHOLD_VAGAS == 78
ALLOWED_STATUS == << <<"P", "u", "b", "l", "i", "s", "h", "e", "d">> >>

-----------------------------------------------------------------------------
(* Raw catalog records (JSON objects) and schemas/trail_candidate.py       *)

\* A raw JSON value of a text field: absent/None, a string, or a number
\* (v holds the text; for a number, its decimal digits).
NoneVal == [t |-> "none", v |-> <<>>]
StrVal(chars) == [t |-> "str", v |-> chars]
IntVal(digits) == [t |-> "int", v |-> digits]

\* Python truthiness of a raw value (x or default)
Truthy(x) ==
    \/ x.t = "str" /\ x.v # <<>>
    \/ x.t = "int" /\ x.v # <<"0">>

\* A raw identifier value: absent, or a non-empty string that is the text of
\* UUID k (k >= 1; upper: written in upper-case hex) or no UUID text (k = 0).
NoId == [t |-> "none", k |-> 0, upper |-> FALSE]
UuidText(k) == [t |-> "str", k |-> k, upper |-> FALSE]
UuidTextUpper(k) == [t |-> "str", k |-> k, upper |-> TRUE]
BadIdText == [t |-> "str", k |-> 0, upper |-> FALSE]

\* Optional[Difficulty] / Optional[Status]: the literal, or "None"
NoneStr == "None"

\* str.lower() / str.casefold() on the difficulty and status literals
LowerWord(w) ==
    CASE w = "Beginner" -> "beginner"
      [] w = "Intermediate" -> "intermediate"
      [] w = "Advanced" -> "advanced"
      [] w = "Published" -> "published"
      [] w = "Draft" -> "draft"
      [] w = "Archived" -> "archived"
      [] OTHER -> w

w_beginner == <<"b","e","g","i","n","n","e","r">>
w_iniciante == <<"i","n","i","c","i","a","n","t","e">>
w_advanced == <<"a","d","v","a","n","c","e","d">>
w_published == <<"p","u","b","l","i","s","h","e","d">>
w_draft == <<"d","r","a","f","t">>
w_archived == <<"a","r","c","h","i","v","e","d">>
w_intermediate == <<"i","n","t","e","r","m","e","d","i","a","t","e">>
w_intermediario_acc == <<"i","n","t","e","r","m","e","d","i","a'","r","i","o">>
w_intermediario == <<"i","n","t","e","r","m","e","d","i","a","r","i","o">>
w_avancado_acc == <<"a","v","a","n","c,","a","d","o">>
w_avancado == <<"a","v","a","n","c","a","d","o">>

\* from_source lines 49-59: difficulty normalisation
NormDifficulty(raw) ==
    IF raw.t # "str" THEN NoneStr
    ELSE LET norm == Casefold(Strip(raw.v)) IN
         IF norm \in {w_beginner, w_iniciante} THEN "Beginner"
         ELSE IF norm \in {w_intermediate, w_intermediario_acc, w_intermediario}
              THEN "Intermediate"
         ELSE IF norm \in {w_advanced, w_avancado_acc, w_avancado}
              THEN "Advanced"
         ELSE NoneStr

\* from_source lines 63-72: status normalisation
NormStatus(raw) ==
    IF raw.t # "str" THEN NoneStr
    ELSE LET s == Casefold(Strip(raw.v)) IN
         IF s = w_published THEN "Published"
         ELSE IF s = w_draft THEN "Draft"
         ELSE IF s = w_archived THEN "Archived"
         ELSE NoneStr

Sep == <<" ", "|", " ">>

\* TrailCandidate.from_source: [ok |-> FALSE] when it raises (identifier
\* missing, unparsable, or a field rejected by the schema), else the candidate.
from_source(item) ==
    LET public_id_raw == IF item.publicId.t = "str" THEN item.publicId ELSE item.id
        slug == IF Truthy(item.slug) THEN item.slug ELSE NoneVal
        title == IF Truthy(item.title) THEN item.title ELSE StrVal(<<>>)
        tags == item.tags
        description == IF Truthy(item.description) THEN item.description
                       ELSE IF Truthy(item.summary) THEN item.summary
                       ELSE StrVal(<<>>)
        subtitle == IF Truthy(item.subtitle) THEN item.subtitle ELSE StrVal(<<>>)
        combined_parts == <<title.v, subtitle.v>> \o tags \o <<description.v>>
        nonempty(p) == p # <<>>
        combined_text == Join(Sep, SeqFilter(combined_parts, nonempty))
        valid == /\ public_id_raw.t = "str"          \* line 40: not missing
                 /\ public_id_raw.k >= 1             \* line 42: UUID(...) parses
                 /\ slug.t \in {"none", "str"}       \* slug: Optional[str]
                 /\ title.t = "str"                  \* title: str
                 /\ description.t = "str"            \* description: str
    IN  [ok |-> valid,
         cand |-> [publicId |-> public_id_raw.k,
                   slug |-> slug.v,
                   title |-> title.v,
                   tags |-> tags,
                   difficulty |-> NormDifficulty(item.difficulty),
                   description |-> description.v,
                   status |-> NormStatus(item.status),
                   combined_text |-> combined_text]]

-----------------------------------------------------------------------------
(* reco/normalizer.py                                                      *)

\* _sanitize_candidate: TrailCandidate has no field "topics", so the read of
\* c.topics at line 66 raises inside the try and the tolerant branch (lines
\* 86-102) runs; it strips title, slug and description, lower-cases the
\* difficulty, and returns c when its own read of c.topics raises.
_sanitize_candidate(c) ==
    [c EXCEPT !.title = Strip(c.title),
              !.slug = Strip(c.slug),
              !.description = Strip(c.description),
              !.difficulty = IF c.difficulty # NoneStr
                             THEN LowerWord(c.difficulty) ELSE NoneStr]

\* the loop of to_candidates leaving at the first record that raises (break in
\* place of the continue of line 46)
RECURSIVE ConvertAll_StopAtInvalid(_)
ConvertAll_StopAtInvalid(raw_items) ==
    IF raw_items = <<>> THEN <<>>
    ELSE LET r == from_source(Head(raw_items)) IN
         IF r.ok THEN <<_sanitize_candidate(r.cand)>>
                      \o ConvertAll_StopAtInvalid(Tail(raw_items))
         ELSE <<>>

\* the loop of to_candidates: one candidate per accepted record, in order
RECURSIVE ConvertAll(_)
ConvertAll(raw_items) ==
    IF raw_items = <<>> THEN <<>>
    ELSE LET r == from_source(Head(raw_items)) IN
         (IF r.ok THEN <<_sanitize_candidate(r.cand)>> ELSE <<>>)
         \o ConvertAll(Tail(raw_items))

\* to_candidates: [raised |-> TRUE] stands for the ValueError of line 50
to_candidates(raw_items) ==
    LET cs == ConvertAll(raw_items) IN
    [raised |-> cs = <<>>, value |-> cs]

\* the text of a Status literal
StatusText(w) ==
    CASE w = "Published" -> <<"P">> \o Tail(w_published)
      [] w = "Draft" -> <<"D">> \o Tail(w_draft)
      [] w = "Archived" -> <<"A">> \o Tail(w_archived)

\* _norm_status of a str: s.strip().casefold()
_norm_status(s) == Casefold(Strip(s))

\* filter_by_status that takes a candidate without status for a match of
\* the empty entry (the test "if st" of line 123 dropped)
filter_by_status_NoStatusTest(cands, allowed_status) ==
    LET allowed_norm == {_norm_status(allowed_status[i]) : i \in DOMAIN allowed_status}
        keep(c) == LET st == IF c.status = NoneStr THEN <<>>
                             ELSE _norm_status(StatusText(c.status))
                   IN st \in allowed_norm
    IN SeqFilter(cands, keep)

\* filter_by_status; _norm_status(None) is None, which is falsy like ""
filter_by_status(cands, allowed_status) ==
    LET allowed_norm == {_norm_status(allowed_status[i]) : i \in DOMAIN allowed_status}
        keep(c) == LET st == IF c.status = NoneStr THEN <<>>
                             ELSE _norm_status(StatusText(c.status))
                   IN st # <<>> /\ st \in allowed_norm
    IN SeqFilter(cands, keep)

\* _completeness_score
_completeness_score(c) ==
      (IF c.slug # <<>> THEN 1 ELSE 0)
    + (IF c.title # <<>> THEN 1 ELSE 0)
    + (IF c.difficulty # NoneStr THEN 1 ELSE 0)
    + (IF c.description # <<>> THEN 1 ELSE 0)
    + (IF Len(c.tags) > 0 THEN 1 ELSE 0)
    + (IF c.combined_text # <<>> THEN 1 ELSE 0)

\* the loop of dedupe_by_public_id replacing on >= (the last of equally
\* complete records wins)
RECURSIVE DedupeLoop_KeepLast(_, _)
DedupeLoop_KeepLast(cands, best) ==
    IF cands = <<>> THEN best
    ELSE LET c == Head(cands)
             has == \E i \in DOMAIN best : best[i].publicId = c.publicId
             at == CHOOSE i \in DOMAIN best : best[i].publicId = c.publicId
         IN IF ~has THEN DedupeLoop_KeepLast(Tail(cands), Append(best, c))
            ELSE IF _completeness_score(c) >= _completeness_score(best[at])
                 THEN DedupeLoop_KeepLast(Tail(cands), [best EXCEPT ![at] = c])
            ELSE DedupeLoop_KeepLast(Tail(cands), best)

\* the loop of dedupe_by_public_id over best_by_id, a dict kept as the list of
\* its values in key-insertion order
RECURSIVE DedupeLoop(_, _)
DedupeLoop(cands, best) ==
    IF cands = <<>> THEN best
    ELSE LET c == Head(cands)
             has == \E i \in DOMAIN best : best[i].publicId = c.publicId
             at == CHOOSE i \in DOMAIN best : best[i].publicId = c.publicId
         IN IF ~has THEN DedupeLoop(Tail(cands), Append(best, c))
            ELSE IF _completeness_score(c) > _completeness_score(best[at])
                 THEN DedupeLoop(Tail(cands), [best EXCEPT ![at] = c])
            ELSE DedupeLoop(Tail(cands), best)

\* _sort_key order: (title.casefold(), slug.casefold(), str(publicId))
SortKeyLess(x, y) ==
    LET tx == Casefold(x.title)  ty == Casefold(y.title)
        sx == Casefold(x.slug)   sy == Casefold(y.slug)
    IN IF tx # ty THEN StrLess(tx, ty)
       ELSE IF sx # sy THEN StrLess(sx, sy)
       ELSE x.publicId < y.publicId

\* dedupe_by_public_id
dedupe_by_public_id(cands) == SortedBy(DedupeLoop(cands, <<>>), SortKeyLess)

-----------------------------------------------------------------------------
(* reco/ranker.py                                                          *)

\* Python float (IEEE 754 binary64).  A score written as a decimal literal
\* with two places, 0.42, is kept as its hundredths, 42.  A float the ranker
\* computes is the record [h, k] that stands for the exact binary value
\*     (h * 2^60 + k) / (100 * 2^60):
\* h is the exact sum of the hundredths and k the distance, in units of
\* 1 / (100 * 2^60), that the roundings of binary64 put between the float
\* and h / 100.  Every float of magnitude 2^-7 .. 8 is such a record with a
\* small k, so two records are the same float iff they are equal, and the
\* order of floats is the order of (h, k).

\* 2^n modulo 100, n >= 2 (the residues repeat with period 20)
Pow2Mod100(n) == (2 ^ (((n - 2) % 20) + 2)) % 100

\* 2^-j <= x for the positive x = [h, k]
AtLeastPow2(h, k, j) ==
    IF j >= 0 THEN h * (2 ^ j) > 100 \/ (h * (2 ^ j) = 100 /\ k >= 0)
    ELSE h > 100 * (2 ^ (0 - j)) \/ (h = 100 * (2 ^ (0 - j)) /\ k >= 0)

\* the binade of the positive x = [h, k]: 2^-j <= x < 2^-(j-1)
Binade(h, k) ==
    CHOOSE j \in (0 - 2)..7 :
        AtLeastPow2(h, k, j) /\ (j = 0 - 2 \/ ~AtLeastPow2(h, k, j - 1))

\* (h * 2^60 + k) modulo 100 * 2^q: the part of x beyond a multiple of 2^(q-60)
Residue(h, k, q) ==
    ((((2 ^ q) * ((h * Pow2Mod100(60 - q)) % 100) + k) % (100 * (2 ^ q)))
     + 100 * (2 ^ q)) % (100 * (2 ^ q))

\* round to nearest, ties to even: r is the residue modulo the unit m, odd
\* the parity of the multiple below
RoundBy(h, k, m, r, odd) ==
    IF 2 * r < m \/ (2 * r = m /\ ~odd) THEN [h |-> h, k |-> k - r]
    ELSE [h |-> h, k |-> k + m - r]

\* the binade 2^-j has 53-bit floats 2^-(j+52) apart: the unit 100 * 2^(8-j)
RoundAt(h, k, q) ==
    RoundBy(h, k, 100 * (2 ^ q), Residue(h, k, q),
            Residue(h, k, q + 1) >= 100 * (2 ^ q))

\* the binary64 nearest to the exact value [h, k]; a value with h = 0 is a
\* difference of floats that cancel, which is exact
FloatRound(h, k) ==
    IF h = 0 THEN [h |-> 0, k |-> k]
    ELSE IF h > 0 THEN RoundAt(h, k, 8 - Binade(h, k))
    ELSE [h |-> h, k |-> 0 - RoundAt(0 - h, 0 - k, 8 - Binade(0 - h, 0 - k)).k]

\* the float a two-place decimal literal denotes: float("0.42") is Dec(42)
Dec(hundredths) == FloatRound(hundredths, 0)

\* x + y on floats
FloatAdd(x, y) == FloatRound(x.h + y.h, x.k + y.k)

\* x < y on floats
FloatLess(x, y) == x.h < y.h \/ (x.h = y.h /\ x.k < y.k)

\* x <= y on floats
FloatLeq(x, y) == x = y \/ FloatLess(x, y)

\* Optional[float]: <<>> is None, <<v>> is the number v
NoScore == <<>>
Some(v) == <<v>>

\* _has_title_desc_keyword
_has_title_desc_keyword_AnyLength(cand, query_tokens) ==
    LET q == Range(query_tokens)
        hay == cand.title \o Sep \o cand.description \o Sep \o cand.combined_text
        hay_norm == Casefold(_strip_accents(hay))
    IN q # {} /\ \E tok \in q : Contains(hay_norm, tok)
_has_title_desc_keyword(cand, query_tokens) ==
    LET q == {t \in Range(query_tokens) : Len(t) > 2}
        hay == cand.title \o Sep \o cand.description \o Sep \o cand.combined_text
        hay_norm == Casefold(_strip_accents(hay))
    IN q # {} /\ \E tok \in q : Contains(hay_norm, tok)

\* lines 99-101: the tokens of all tags
RECURSIVE TagTokens(_)
TagTokens(tags) ==
    IF tags = <<>> THEN <<>> ELSE _tokenize(Head(tags)) \o TagTokens(Tail(tags))

\* CapAndClamp without the cap of line 113: only the clamp to [0, 1]
CapAndClamp_ClampOnly(score) ==
    IF FloatLess(score, Dec(0)) THEN Dec(0)
    ELSE IF FloatLess(Dec(100), score) THEN Dec(100) ELSE score

\* lines 113-118: cap at SCORE_CAP, then clamp to [0, 1]
CapAndClamp(score) ==
    LET capped == IF FloatLess(Dec(SCORE_CAP), score) THEN Dec(SCORE_CAP)
                  ELSE score
    IN IF FloatLess(capped, Dec(0)) THEN Dec(0)
       ELSE IF FloatLess(Dec(100), capped) THEN Dec(100) ELSE capped

\* _apply_boosts: (score, boosts_applied)
_apply_boosts(base_score, cand, query_tokens) ==
    LET b0 == _has_title_desc_keyword(cand, query_tokens)
        tag_tokens == TagTokens(cand.tags)
        b1 == tag_tokens # <<>> /\ Range(query_tokens) \cap Range(tag_tokens) # {}
        b2 == (IF cand.difficulty = NoneStr THEN "" ELSE LowerWord(cand.difficulty))
              = "beginner"
        score0 == Dec(base_score)
        score1 == IF b0 THEN FloatAdd(score0, Dec(TITLE_DESC_BOOST)) ELSE score0
        score2 == IF b1 THEN FloatAdd(score1, Dec(TAG_BOOST)) ELSE score1
        score == IF b2 THEN FloatAdd(score2, Dec(BEGINNER_BOOST)) ELSE score2
        boosts == (IF b0 THEN <<"title_desc_match">> ELSE <<>>)
                  \o (IF b1 THEN <<"tag_match">> ELSE <<>>)
                  \o (IF b2 THEN <<"beginner_boost">> ELSE <<>>)
    IN [score |-> CapAndClamp(score), boosts |-> boosts]

\* A legacy item is the tuple (candidate, content_score); a hybrid item is a
\* dict with candidate and the three optional scores.
IsLegacy(items) == "content_score" \in DOMAIN items[1]

\* _coerce_inputs: (candidate, score_combined, score_semantic, score_bm25)
_coerce_inputs(items) ==
    IF items = <<>> THEN <<>>
    ELSE IF IsLegacy(items)
    THEN [i \in DOMAIN items |->
            [candidate |-> items[i].candidate, score_combined |-> NoScore,
             score_semantic |-> NoScore, score_bm25 |-> Some(items[i].content_score)]]
    ELSE [i \in DOMAIN items |->
            [candidate |-> items[i].candidate,
             score_combined |-> items[i].score_combined,
             score_semantic |-> items[i].score_semantic,
             score_bm25 |-> items[i].score_bm25]]

\* lines 213-217: base score, hybrid before legacy
BaseScore(it) ==
    IF it.score_combined # NoScore THEN it.score_combined[1]
    ELSE IF it.score_bm25 # NoScore THEN it.score_bm25[1]
    ELSE 0

\* lines 212-230: one ScoredCandidate per coerced item
Enrich(it, q_tokens) ==
    LET base_score == BaseScore(it)
        r == _apply_boosts(base_score, it.candidate, q_tokens)
    IN [candidate |-> it.candidate,
        match_score |-> r.score,
        applied_boosts |-> r.boosts,
        base_score |-> base_score,
        score_semantic |-> it.score_semantic,
        score_bm25 |-> it.score_bm25,
        score_combined |-> it.score_combined]

\* BestById that keeps the first entry seen for an identifier, whatever the
\* scores (the comparison of line 241 dropped)
RECURSIVE BestById_FirstSeen(_, _)
BestById_FirstSeen(items, best) ==
    IF items = <<>> THEN best
    ELSE LET sc == Head(items)
             has == \E i \in DOMAIN best :
                        best[i].candidate.publicId = sc.candidate.publicId
         IN IF ~has THEN BestById_FirstSeen(Tail(items), Append(best, sc))
            ELSE BestById_FirstSeen(Tail(items), best)

\* lines 237-242: best_by_id, a dict kept as its values in key-insertion order
RECURSIVE BestById(_, _)
BestById(items, best) ==
    IF items = <<>> THEN best
    ELSE LET sc == Head(items)
             has == \E i \in DOMAIN best :
                        best[i].candidate.publicId = sc.candidate.publicId
             at == CHOOSE i \in DOMAIN best :
                        best[i].candidate.publicId = sc.candidate.publicId
         IN IF ~has THEN BestById(Tail(items), Append(best, sc))
            ELSE IF FloatLess(best[at].match_score, sc.match_score)
                 THEN BestById(Tail(items), [best EXCEPT ![at] = sc])
            ELSE BestById(Tail(items), best)

\* RankKeyLess with the score as the whole key (no tie-break)
RankKeyLess_ScoreOnly(x, y) == FloatLess(y.match_score, x.match_score)

\* line 244: key (-match_score, title.casefold(), str(publicId))
RankKeyLess(x, y) ==
    LET tx == Casefold(x.candidate.title)
        ty == Casefold(y.candidate.title)
    IN IF x.match_score # y.match_score
       THEN FloatLess(y.match_score, x.match_score)
       ELSE IF tx # ty THEN StrLess(tx, ty)
       ELSE x.candidate.publicId < y.candidate.publicId

\* rank._dedup
_dedup(items) == SortedBy(BestById(items, <<>>), RankKeyLess)

\* Threshold that ignores the collection
Threshold_TrilhasOnly(coll) == MATCH_THRESHOLD_TRILHAS

\* lines 203-206
Threshold(coll) ==
    IF coll = "vagas" THEN MATCH_THRESHOLD_VAGAS ELSE MATCH_THRESHOLD_TRILHAS

\* line 208 (max_results 0 stands for None; any value <= 0 takes the default)
MaxN(maxres) == IF maxres > 0 THEN maxres ELSE MAX_SUGGESTIONS

Take(s, n) == SubSeq(s, 1, IF n < Len(s) THEN n ELSE Len(s))

\* rank whose dominance fallback returns the top max_n instead of the top 1
rank_FallbackTopN(items, qtext, coll, maxres) ==
    LET coerced == _coerce_inputs(items)
        q_tokens == _tokenize(qtext)
        enriched == [i \in DOMAIN coerced |-> Enrich(coerced[i], q_tokens)]
        passes(sc) == FloatLeq(Dec(Threshold(coll)), sc.match_score)
        filtered == SeqFilter(enriched, passes)
        dedup_all == _dedup(enriched)
    IN IF coerced = <<>> THEN <<>>
       ELSE IF filtered = <<>>
       THEN (IF dedup_all # <<>> /\ FloatLeq(Dec(DOMINANCE_MIN_ACCEPT),
                                               dedup_all[1].match_score)
             THEN Take(dedup_all, MaxN(maxres)) ELSE <<>>)
       ELSE Take(_dedup(filtered), MaxN(maxres))

\* rank
rank(items, qtext, coll, maxres) ==
    LET coerced == _coerce_inputs(items)
        q_tokens == _tokenize(qtext)
        enriched == [i \in DOMAIN coerced |-> Enrich(coerced[i], q_tokens)]
        passes(sc) == FloatLeq(Dec(Threshold(coll)), sc.match_score)
        filtered == SeqFilter(enriched, passes)
        dedup_all == _dedup(enriched)
    IN IF coerced = <<>> THEN <<>>
       ELSE IF filtered = <<>>
       THEN (IF dedup_all # <<>> /\ FloatLeq(Dec(DOMINANCE_MIN_ACCEPT),
                                               dedup_all[1].match_score)
             THEN Take(dedup_all, 1) ELSE <<>>)
       ELSE Take(_dedup(filtered), MaxN(maxres))

-----------------------------------------------------------------------------
(* reco/explainer.py                                                       *)

p_conecta_com == <<"C","o","n","e","c","t","a"," ","c","o","m"," ">>
p_e_iniciante ==
    <<" ","e"," ","e'"," ","n","i'","v","e","l"," ","i","n","i","c","i","a",
      "n","t","e">>
p_porta_entrada ==
    <<"B","o","a"," ","p","o","r","t","a"," ","d","e"," ","e","n","t","r",
      "a","d","a"," ","(","n","i'","v","e","l"," ","i","n","i","c","i","a",
      "n","t","e",")">>
p_combina ==
    <<"C","o","m","b","i","n","a"," ","c","o","m"," ","o"," ","q","u","e",
      " ","v","o","c","e^"," ","b","u","s","c","o","u">>
cue_aulas_curtas == <<"a","u","l","a","s"," ","c","u","r","t","a","s">>
cue_praticos ==
    <<"c","o","n","t","e","u'","d","o","s"," ","p","r","a'","t","i","c","o",
      "s">>
cue_videos == <<"t","e","m"," ","v","i'","d","e","o","s">>
cue_quizzes == <<"t","e","m"," ","q","u","i","z","z","e","s">>
k_curt == <<"c","u","r","t">>
k_exerc == <<"e","x","e","r","c">>
k_pratic == <<"p","r","a","t","i","c">>
k_video == <<"v","i","d","e","o">>
k_quiz == <<"q","u","i","z">>
p_dash == <<" ","--"," ">>
t_nao_informado == <<"n","a~","o"," ","i","n","f","o","r","m","a","d","o">>

\* _best_tag_match: the first tag with a token in the query, original
\* spelling; <<>> stands for None
RECURSIVE _best_tag_match(_, _)
_best_tag_match(tags, q_tokens) ==
    IF tags = <<>> THEN <<>>
    ELSE IF Range(_tokenize(Head(tags))) \cap Range(q_tokens) # {}
         THEN Head(tags)
    ELSE _best_tag_match(Tail(tags), q_tokens)

\* _content_cues without the limit of lines 80-88: every cue found
_content_cues_NoLimit(cand) ==
    LET text == Casefold(_strip_accents(
                    cand.description \o Sep \o cand.combined_text))
    IN (IF Contains(text, k_curt) THEN <<cue_aulas_curtas>> ELSE <<>>)
       \o (IF Contains(text, k_exerc) \/ Contains(text, k_pratic)
           THEN <<cue_praticos>> ELSE <<>>)
       \o (IF Contains(text, k_video) THEN <<cue_videos>> ELSE <<>>)
       \o (IF Contains(text, k_quiz) THEN <<cue_quizzes>> ELSE <<>>)

\* _content_cues: at most 2 distinct cues
_content_cues(cand) ==
    LET text == Casefold(_strip_accents(
                    cand.description \o Sep \o cand.combined_text))
        cues == (IF Contains(text, k_curt) THEN <<cue_aulas_curtas>> ELSE <<>>)
                \o (IF Contains(text, k_exerc) \/ Contains(text, k_pratic)
                    THEN <<cue_praticos>> ELSE <<>>)
                \o (IF Contains(text, k_video) THEN <<cue_videos>> ELSE <<>>)
                \o (IF Contains(text, k_quiz) THEN <<cue_quizzes>> ELSE <<>>)
    IN Take(cues, 2)

\* str.replace(old, new), leftmost non-overlapping occurrences
RECURSIVE Replace(_, _, _)
Replace(s, old, new) ==
    LET occ == {i \in 1..(Len(s) - Len(old) + 1) :
                    SubSeq(s, i, i + Len(old) - 1) = old}
    IN IF occ = {} THEN s
       ELSE LET i == CHOOSE k \in occ : \A j \in occ : k <= j
            IN SubSeq(s, 1, i - 1) \o new
               \o Replace(SubSeq(s, i + Len(old), Len(s)), old, new)

\* make_reason
make_reason(scored, qtext) ==
    LET cand == scored.candidate
        q_tokens == _tokenize(qtext)
        tag == _best_tag_match(cand.tags, q_tokens)
        beginner == (IF cand.difficulty = NoneStr THEN ""
                     ELSE LowerWord(cand.difficulty)) = "beginner"
        lead == IF tag # <<>> /\ beginner THEN p_conecta_com \o tag \o p_e_iniciante
                ELSE IF tag # <<>> THEN p_conecta_com \o tag
                ELSE IF beginner THEN p_porta_entrada
                ELSE p_combina
        cues == _content_cues(cand)
        parts == <<lead>> \o (IF cues # <<>>
                              THEN <<p_dash \o Join(<<",", " ">>, cues)>>
                              ELSE <<>>)
        joined == Join(<<".", " ">>, parts)
        reason == Replace(Replace(joined, <<".", " ", " ", "--">>, <<" ", "--">>),
                          <<".", " ", "--">>, <<" ", "--">>)
    IN IF Len(reason) > 180
       THEN RStrip(SubSeq(reason, 1, 177)) \o <<".", ".", ".">>
       ELSE reason

-----------------------------------------------------------------------------
(* reco/output_builder.py                                                  *)

\* Fixed texts of the envelope, kept as opaque literals (none has leading or
\* trailing white space, so strip() leaves them as they are).
DEFAULT_EMPTY_MESSAGE == "No momento nao encontrei trilhas publicadas ..."
SHORT_ANSWER_EMPTY == "Ainda nao encontrei trilhas publicadas ..."
SHORT_ANSWER_OK == "Boa! Encontrei algumas trilhas ..."
CTA_EMPTY == "Tentar de novo"
CTA_OK == "Comecar trilha"
DEFAULT_WHY_MATCH == p_combina \o <<".">>

\* output_builder._tokenize: word runs, case-folded (accents kept)
ob_tokenize(text) ==
    IF text = <<>> THEN <<>>
    ELSE LET runs == WordRuns(text, <<>>)
         IN [i \in DOMAIN runs |-> Casefold(runs[i])]

\* _infer_theme: the longest token (the first among equally long ones)
_infer_theme(qtext) ==
    LET tokens == ob_tokenize(qtext)
        longer(a, b) == Len(a) > Len(b)
        tokens_sorted == SortedBy(tokens, longer)
    IN IF tokens = <<>> THEN t_nao_informado
       ELSE tokens_sorted[1]

\* _keywords: up to limit distinct tokens, in order of occurrence
RECURSIVE KeywordLoop(_, _, _)
KeywordLoop(toks, out, limit) ==
    IF toks = <<>> THEN out
    ELSE LET out2 == IF Head(toks) \in Range(out) THEN out
                     ELSE Append(out, Head(toks))
         IN IF Len(out2) >= limit THEN out2
            ELSE KeywordLoop(Tail(toks), out2, limit)

_keywords(qtext, limit) == KeywordLoop(ob_tokenize(qtext), <<>>, limit)

Min(a, b) == IF a < b THEN a ELSE b
Max(a, b) == IF a > b THEN a ELSE b

\* lines 109-125: one SuggestedTrail per ranked entry
Suggestion(sc, reasons) ==
    LET pid == sc.candidate.publicId
        given == IF pid \in DOMAIN reasons THEN reasons[pid] ELSE <<>>
        reason == IF given = <<>> \/ Len(Strip(given)) < 5
                  THEN DEFAULT_WHY_MATCH ELSE given
    IN [publicId |-> pid,
        slug |-> sc.candidate.slug,
        title |-> sc.candidate.title,
        why_match |-> Strip(reason),
        match_score |-> sc.match_score]

\* build_output; suggested_trails <<>> stands for None
build_output(rk, qtext, maxres, reasons) ==
    LET qu == [tema |-> _infer_theme(qtext),
               palavras_chave |-> _keywords(qtext, 5)]
        topk == Take(rk, Max(1, Min(maxres, Len(rk))))
    IN IF rk = <<>>
       THEN [status |-> "fora_do_escopo",
             mensagem_padrao |-> DEFAULT_EMPTY_MESSAGE,
             short_answer |-> SHORT_ANSWER_EMPTY,
             suggested_trails |-> <<>>,
             cta |-> CTA_EMPTY,
             query_understanding |-> qu]
       ELSE [status |-> "ok",
             mensagem_padrao |-> NoneStr,
             short_answer |-> SHORT_ANSWER_OK,
             suggested_trails |-> [i \in DOMAIN topk |-> Suggestion(topk[i], reasons)],
             cta |-> CTA_OK,
             query_understanding |-> qu]

-----------------------------------------------------------------------------
(* validators/trail_output_checks.py                                       *)

MATCH_THRESHOLD == 75
CHECKS_MAX_SUGGESTIONS == 3

\* _enforce_threshold
_enforce_threshold(items, threshold) ==
    LET keep(s) == FloatLeq(Dec(threshold), s.match_score)
    IN SeqFilter(items, keep)

\* _dedupe_keep_best: every suggestion carries a publicId, so the key is it
RECURSIVE KeepBest(_, _)
KeepBest(items, best) ==
    IF items = <<>> THEN best
    ELSE LET s == Head(items)
             has == \E i \in DOMAIN best : best[i].publicId = s.publicId
             at == CHOOSE i \in DOMAIN best : best[i].publicId = s.publicId
         IN IF ~has THEN KeepBest(Tail(items), Append(best, s))
            ELSE IF FloatLess(best[at].match_score, s.match_score)
                 THEN KeepBest(Tail(items), [best EXCEPT ![at] = s])
            ELSE KeepBest(Tail(items), best)

SuggestionLess(x, y) ==
    LET tx == Casefold(x.title)  ty == Casefold(y.title)
    IN IF x.match_score # y.match_score
       THEN FloatLess(y.match_score, x.match_score)
       ELSE IF tx # ty THEN StrLess(tx, ty)
       ELSE x.publicId < y.publicId

_dedupe_keep_best(items) == SortedBy(KeepBest(items, <<>>), SuggestionLess)

\* _cap_suggestions
_cap_suggestions(items, max_n) ==
    Take(items, Max(1, Min(max_n, CHECKS_MAX_SUGGESTIONS)))

\* _fill_missing_why_match
_fill_missing_why_match(items) ==
    [i \in DOMAIN items |->
        IF Len(Strip(items[i].why_match)) < 5
        THEN [items[i] EXCEPT !.why_match = DEFAULT_WHY_MATCH]
        ELSE items[i]]

\* _strip_text_fields: the fixed texts are unchanged by strip(); each
\* why_match is stripped
_strip_text_fields(o) ==
    [o EXCEPT !.suggested_trails =
        [i \in DOMAIN o.suggested_trails |->
            [o.suggested_trails[i] EXCEPT !.why_match = Strip(@)]]]

\* _ensure_status_coherence that leaves the envelope as it is
_ensure_status_coherence_Keep(o) == o

\* _ensure_status_coherence (web_fallback is always None in this phase);
\* o.mensagem_padrao or DEFAULT_FALLBACK_MESSAGE replaces None and "", and
\* the text of DEFAULT_FALLBACK_MESSAGE is that of DEFAULT_EMPTY_MESSAGE
_ensure_status_coherence(o) ==
    LET has_trails == o.suggested_trails # <<>>
        as_out_of_scope ==
            [o EXCEPT !.status = "fora_do_escopo",
                      !.mensagem_padrao = IF o.mensagem_padrao \notin {NoneStr, ""}
                                          THEN o.mensagem_padrao
                                          ELSE DEFAULT_EMPTY_MESSAGE,
                      !.suggested_trails = <<>>,
                      !.short_answer = SHORT_ANSWER_EMPTY,
                      !.cta = CTA_EMPTY]
    IN IF o.status = "ok"
       THEN (IF ~has_trails THEN as_out_of_scope ELSE o)
       ELSE IF o.status = "fora_do_escopo" THEN as_out_of_scope
       ELSE o

\* apply_business_rules
apply_business_rules(out) ==
    LET o1 == _strip_text_fields(out)
        o2 == IF o1.suggested_trails # <<>>
              THEN [o1 EXCEPT !.suggested_trails =
                       _fill_missing_why_match(
                           _cap_suggestions(
                               _dedupe_keep_best(
                                   _enforce_threshold(@, MATCH_THRESHOLD)),
                               CHECKS_MAX_SUGGESTIONS))]
              ELSE o1
    IN _ensure_status_coherence(o2)

-----------------------------------------------------------------------------
(* Inputs: a small catalog, queries and scored items                       *)

t_Logica == <<"L","o'","g","i","c","a">>
t_BI == <<"B","I">>
t_Dados == <<"D","a","d","o","s">>
t_dados == <<"d","a","d","o","s">>
t_Arte == <<"A","r","t","e">>
t_Zen == <<"Z","e","n">>
t_Beginner == <<"B","e","g","i","n","n","e","r">>
t_Published == <<"P","u","b","l","i","s","h","e","d">>
t_Draft == <<"D","r","a","f","t">>

RawBase ==
    [publicId |-> NoId, id |-> NoId, slug |-> NoneVal, title |-> NoneVal,
     subtitle |-> NoneVal, tags |-> <<>>, difficulty |-> NoneVal,
     description |-> NoneVal, summary |-> NoneVal, status |-> NoneVal]

RawA == [RawBase EXCEPT !.publicId = UuidText(1), !.title = StrVal(t_Logica),
                        !.slug = StrVal(Casefold(_strip_accents(t_Logica))),
                        !.tags = <<t_BI>>, !.difficulty = StrVal(t_Beginner),
                        !.status = StrVal(t_Published)]
RawB == [RawBase EXCEPT !.id = UuidTextUpper(2), !.title = StrVal(t_Dados),
                        !.tags = <<t_BI>>, !.difficulty = StrVal(w_advanced),
                        !.status = StrVal(w_published \o <<" ">>)]
RawC == [RawBase EXCEPT !.publicId = UuidText(3), !.title = StrVal(t_dados),
                        !.tags = <<t_BI>>, !.status = StrVal(t_Published)]
RawD == [RawBase EXCEPT !.publicId = UuidText(4),
                        !.title = StrVal(<<" ">> \o t_Arte \o <<" ">>),
                        !.status = StrVal(t_Published)]
RawE == [RawBase EXCEPT !.publicId = UuidText(5), !.title = StrVal(t_Zen),
                        !.difficulty = StrVal(w_iniciante),
                        !.status = StrVal(t_Published)]

CandOf(raw) == _sanitize_candidate(from_source(raw).cand)
CandA == CandOf(RawA)
CandB == CandOf(RawB)
CandC == CandOf(RawC)
CandD == CandOf(RawD)
CandE == CandOf(RawE)

q_LogicaBI == t_Logica \o <<" ">> \o t_BI
q_LogicaDados == t_Logica \o <<" ">> \o t_dados
q_DadosBI == t_Dados \o <<" ">> \o t_BI
Queries == {q_LogicaBI, q_LogicaDados, q_DadosBI}

Legacy(c, s) == [candidate |-> c, content_score |-> s]
Hybrid(c, comb, sem, bm) ==
    [candidate |-> c, score_combined |-> comb, score_semantic |-> sem,
     score_bm25 |-> bm]

\* longest list of scored items handed to rank()
MaxItems == 3

SeqsUpTo(S, n) == UNION {[1..k -> S] : k \in 0..n}

\* legacy items: negative, sub-floor, fallback-range, passing and above-1
\* base scores; CandB/CandC tie under every query
RankItems ==
    {Legacy(CandA, 75), Legacy(CandB, 62), Legacy(CandC, 62),
     Legacy(CandD, -10), Legacy(CandD, 58), Legacy(CandD, 61),
     Legacy(CandD, 120)}

\* one passing item per identifier: more identifiers than MAX_SUGGESTIONS
WideItems ==
    {Legacy(CandA, 75), Legacy(CandB, 62), Legacy(CandC, 62),
     Legacy(CandD, 75), Legacy(CandE, 70)}

WideLists ==
    UNION {{s \in [1..k -> WideItems] :
               \A i, j \in 1..k : i # j => s[i] # s[j]}
           : k \in (MAX_SUGGESTIONS + 1)..Cardinality(WideItems)}

\* two versions of one trail (same publicId, another description) with equal
\* scores, next to another trail
CandA2 == [CandA EXCEPT !.description = t_Dados]

VersionItems == {Legacy(CandA, 75), Legacy(CandA2, 75), Legacy(CandB, 62)}

\* scores whose decimal sums with the boosts are all 0.72 and whose float
\* sums are not: 0.42 + 0.15 + 0.10 + 0.05 is 0.72 (CandA, three boosts) and
\* 0.67 + 0.05 is 0.7200000000000001 (CandE, the beginner boost); CandE1 is
\* the second trail under the publicId of the first
CandE1 == [CandE EXCEPT !.publicId = CandA.publicId]

RoundingItems == {Legacy(CandA, 42), Legacy(CandE, 67), Legacy(CandE1, 67)}

HybridItems ==
    {Hybrid(CandD, Some(75), Some(61), Some(58)),
     Hybrid(CandD, Some(61), NoScore, NoScore),
     Hybrid(CandD, NoScore, NoScore, Some(75)),
     Hybrid(CandD, NoScore, Some(75), NoScore),
     Hybrid(CandE, NoScore, NoScore, NoScore),
     Hybrid(CandE, Some(70), NoScore, Some(-10))}

\* the parts of the state a call does not use
NoPipeline ==
    /\ user_question = <<>>
    /\ raw_trails = <<>>
    /\ candidates = <<>>
    /\ stages = <<>>

NoOutput ==
    /\ reasons_by_id = <<>>
    /\ output = <<>>
    /\ final_output = <<>>

\* no call outside the run
NoCall ==
    /\ arg = <<>>
    /\ ret = <<>>
    /\ vindex = <<>>

-----------------------------------------------------------------------------
(* Actions                                                                 *)

\* to_candidates(raw_trails)
Convert ==
    /\ pc = "to_candidates_call"
    /\ LET r == to_candidates(raw_trails) IN
        /\ candidates' = r.value
        /\ pc' = IF r.raised THEN "raised" ELSE "to_candidates_done"
    /\ UNCHANGED callVars
    /\ UNCHANGED <<user_question, raw_trails, scored_candidates, query_text,
                   collection, max_results, ranked, reasons_by_id, output,
                   final_output, stages>>

\* rank(scored_candidates, query_text, cfg, collection, max_results)
Rank ==
    /\ pc = "rank_call"
    /\ ranked' = rank(scored_candidates, query_text, collection, max_results)
    /\ pc' = "rank_done"
    /\ stages' = IF stages = <<>> THEN stages ELSE Append(stages, "rank")
    /\ UNCHANGED callVars
    /\ UNCHANGED <<user_question, raw_trails, candidates, scored_candidates,
                   query_text, collection, max_results, reasons_by_id, output,
                   final_output>>

\* build_output(ranked, query_text, max_results, reasons_by_id)
BuildOutput ==
    /\ pc = "build_output_call"
    /\ output' = build_output(ranked, query_text, max_results, reasons_by_id)
    /\ pc' = "apply_rules_call"
    /\ UNCHANGED callVars
    /\ UNCHANGED <<user_question, raw_trails, candidates, scored_candidates,
                   query_text, collection, max_results, ranked, reasons_by_id,
                   final_output, stages>>

\* apply_business_rules(output)
ApplyRules ==
    /\ pc = "apply_rules_call"
    /\ final_output' = apply_business_rules(output)
    /\ pc' = "done"
    /\ UNCHANGED callVars
    /\ UNCHANGED <<user_question, raw_trails, candidates, scored_candidates,
                   query_text, collection, max_results, ranked, reasons_by_id,
                   output, stages>>

-----------------------------------------------------------------------------
(* SpecRank: rank() applied to every bounded input                         *)

InitRank ==
    /\ pc = "rank_call"
    /\ \/ /\ scored_candidates \in SeqsUpTo(RankItems, MaxItems)
          /\ query_text = q_LogicaBI
          /\ collection \in {"trilhas", "vagas"}
          /\ max_results \in {0, 1, 2}
       \/ /\ scored_candidates \in SeqsUpTo(RankItems \cup {Legacy(CandE, 70)}, 2)
          /\ query_text \in Queries \ {q_LogicaBI}
          /\ collection = "trilhas"
          /\ max_results = 0
       \/ /\ scored_candidates \in WideLists
          /\ query_text = q_LogicaBI
          /\ collection = "trilhas"
          /\ max_results \in {0, 2, 4, 5}
       \/ /\ scored_candidates \in SeqsUpTo(HybridItems, 2)
          /\ query_text = q_LogicaBI
          /\ collection \in {"trilhas", "vagas"}
          /\ max_results \in {0, 1}
       \/ /\ scored_candidates \in SeqsUpTo(VersionItems, MaxItems)
          /\ query_text = q_LogicaBI
          /\ collection = "trilhas"
          /\ max_results = 0
       \/ /\ scored_candidates \in SeqsUpTo(RoundingItems, MaxItems)
          /\ query_text = q_LogicaBI
          /\ collection = "trilhas"
          /\ max_results = 0
    /\ ranked = <<>>
    /\ NoPipeline
    /\ NoOutput
    /\ NoCall

NextRank == Rank

SpecRank == InitRank /\ [][NextRank]_vars

-----------------------------------------------------------------------------
(* Claims about rank(), checked under SpecRank                             *)

\* the ScoredCandidate computed for each input entry (lines 211-230)
EnrichedIn ==
    LET coerced == _coerce_inputs(scored_candidates)
        q_tokens == _tokenize(query_text)
    IN [i \in DOMAIN coerced |-> Enrich(coerced[i], q_tokens)]

CollectionThreshold ==
    IF collection = "vagas" THEN MATCH_THRESHOLD_VAGAS ELSE MATCH_THRESHOLD_TRILHAS

SomeReaches(e, th) == \E j \in DOMAIN e : FloatLeq(Dec(th), e[j].match_score)

\* C1: the match_score computed for every input entry, and carried by every
\* returned entry, lies in [0, SCORE_CAP] and so in [0, 1], whatever the base
\* score (negative, above 1) and the boosts applied.
C1_ScoreBounds ==
    pc = "rank_done" =>
        LET e == EnrichedIn
        IN /\ \A j \in DOMAIN e :
                 /\ FloatLeq(Dec(0), e[j].match_score)
                 /\ FloatLeq(e[j].match_score, Dec(SCORE_CAP))
                 /\ FloatLeq(e[j].match_score, Dec(100))
           /\ \A i \in DOMAIN ranked :
                 /\ FloatLeq(Dec(0), ranked[i].match_score)
                 /\ FloatLeq(ranked[i].match_score, Dec(SCORE_CAP))

\* a run with a negative base score clamped to 0 and a base score whose sum
\* with all three boosts exceeds 1.0, returned at SCORE_CAP
C1_Witness ==
    /\ pc = "rank_done"
    /\ LET e == EnrichedIn
       IN \E j \in DOMAIN e : e[j].base_score < 0 /\ e[j].match_score = Dec(0)
    /\ \E i \in DOMAIN ranked :
          /\ Len(ranked[i].applied_boosts) = 3
          /\ ranked[i].base_score <= 100
          /\ ranked[i].base_score + TITLE_DESC_BOOST + TAG_BOOST + BEGINNER_BOOST > 100
          /\ ranked[i].match_score = Dec(SCORE_CAP)

\* C2: no two returned entries share a publicId, and a returned entry has the
\* maximum match_score among all input entries of its publicId.
C2_Dedup ==
    pc = "rank_done" =>
        LET e == EnrichedIn
        IN /\ \A i, k \in DOMAIN ranked :
                 i # k => ranked[i].candidate.publicId # ranked[k].candidate.publicId
           /\ \A i \in DOMAIN ranked : \A j \in DOMAIN e :
                 e[j].candidate.publicId = ranked[i].candidate.publicId
                     => FloatLeq(e[j].match_score, ranked[i].match_score)

\* an identifier entered twice, the higher score second, and returned
C2_Witness ==
    /\ pc = "rank_done"
    /\ LET e == EnrichedIn
       IN \E j, k \in DOMAIN e : \E i \in DOMAIN ranked :
              /\ j < k
              /\ e[j].candidate.publicId = e[k].candidate.publicId
              /\ FloatLess(e[j].match_score, e[k].match_score)
              /\ ranked[i] = e[k]

\* C3: when some candidate reaches the threshold of the collection, every
\* returned entry reaches it; an entry below it is returned only when none does.
C3_Threshold ==
    pc = "rank_done" =>
        (SomeReaches(EnrichedIn, CollectionThreshold) =>
            \A i \in DOMAIN ranked :
                FloatLeq(Dec(CollectionThreshold), ranked[i].match_score))

\* jobs collection: one candidate reaches 0.78, another lies between the
\* trails threshold and the jobs threshold and is left out
C3_Witness ==
    /\ pc = "rank_done"
    /\ collection = "vagas"
    /\ ranked # <<>>
    /\ LET e == EnrichedIn
       IN /\ SomeReaches(e, MATCH_THRESHOLD_VAGAS)
          /\ \E j \in DOMAIN e :
                /\ FloatLeq(Dec(MATCH_THRESHOLD_TRILHAS), e[j].match_score)
                /\ FloatLess(e[j].match_score, Dec(MATCH_THRESHOLD_VAGAS))

\* C4: when no candidate reaches the threshold, rank() returns exactly the
\* best candidate if its score is >= DOMINANCE_MIN_ACCEPT and nothing
\* otherwise, whatever max_results is.
C4_Dominance ==
    pc = "rank_done" =>
        LET e == EnrichedIn
        IN ~SomeReaches(e, CollectionThreshold) =>
              IF SomeReaches(e, DOMINANCE_MIN_ACCEPT)
              THEN /\ Len(ranked) = 1
                   /\ \E j \in DOMAIN e : ranked[1] = e[j]
                   /\ \A j \in DOMAIN e :
                         FloatLeq(e[j].match_score, ranked[1].match_score)
              ELSE ranked = <<>>

\* two identifiers in the fallback range, max_results 2, one entry returned
C4_Witness ==
    /\ pc = "rank_done"
    /\ max_results = 2
    /\ Len(ranked) = 1
    /\ LET e == EnrichedIn
       IN /\ ~SomeReaches(e, CollectionThreshold)
          /\ \E j, k \in DOMAIN e :
                /\ e[j].candidate.publicId # e[k].candidate.publicId
                /\ FloatLeq(Dec(DOMINANCE_MIN_ACCEPT), e[j].match_score)
                /\ FloatLeq(Dec(DOMINANCE_MIN_ACCEPT), e[k].match_score)

\* C5: for a positive max_results the number of returned entries is at most
\* min(max_results, MAX_SUGGESTIONS).
C5_TopN ==
    (pc = "rank_done" /\ max_results > 0) =>
        Len(ranked) <= Min(max_results, MAX_SUGGESTIONS)

\* C6: the returned sequence is ordered by match_score descending, then
\* case-folded title ascending, then publicId ascending, so that equal inputs
\* give one sequence.
C6_Ordering ==
    pc = "rank_done" =>
        \A i, k \in DOMAIN ranked :
            i < k =>
                LET x == ranked[i]
                    y == ranked[k]
                    tx == Casefold(x.candidate.title)
                    ty == Casefold(y.candidate.title)
                IN \/ FloatLess(y.match_score, x.match_score)
                   \/ x.match_score = y.match_score /\ StrLess(tx, ty)
                   \/ /\ x.match_score = y.match_score
                      /\ tx = ty
                      /\ x.candidate.publicId < y.candidate.publicId

\* a tie on score and case-folded title (the titles differ in case only)
\* broken by publicId, below a higher score, the inputs given in the
\* opposite order
C6_Witness ==
    /\ pc = "rank_done"
    /\ Len(ranked) = 3
    /\ FloatLess(ranked[2].match_score, ranked[1].match_score)
    /\ ranked[2].match_score = ranked[3].match_score
    /\ Casefold(ranked[2].candidate.title) = Casefold(ranked[3].candidate.title)
    /\ ranked[2].candidate.title # ranked[3].candidate.title
    /\ scored_candidates[1].candidate = ranked[3].candidate
    /\ scored_candidates[2].candidate = ranked[2].candidate
    /\ scored_candidates[3].candidate = ranked[1].candidate

-----------------------------------------------------------------------------
(* SpecNorm: to_candidates applied to every bounded raw batch              *)

\* longest raw batch
MaxRaw == 3

\* no identifier at all
RawNoId == [RawBase EXCEPT !.title = StrVal(t_Zen), !.status = StrVal(t_Published)]
\* an identifier text that is no UUID
RawBadId == [RawBase EXCEPT !.publicId = BadIdText, !.title = StrVal(t_Arte)]
\* publicId is no UUID text while id is one: publicId is the one parsed
RawShadowed == [RawBase EXCEPT !.publicId = BadIdText, !.id = UuidText(4),
                               !.title = StrVal(t_Arte)]
\* a parsable identifier and a title that is a JSON number
RawIntTitle == [RawBase EXCEPT !.publicId = UuidText(5), !.title = IntVal(<<"7">>),
                               !.status = StrVal(t_Published)]
\* a parsable identifier and the JSON number 0 as title: title or "" is ""
RawZeroTitle == [RawBase EXCEPT !.publicId = UuidText(6), !.title = IntVal(<<"0">>),
                                !.status = StrVal(t_Published)]
\* a second record of identifier 1: a draft with fewer fields
RawDraftA == [RawBase EXCEPT !.publicId = UuidTextUpper(1), !.title = StrVal(t_Logica),
                             !.status = StrVal(t_Draft)]

RawUniverse ==
    {RawA, RawB, RawD, RawNoId, RawBadId, RawShadowed, RawIntTitle, RawZeroTitle,
     RawDraftA}

InitNorm ==
    /\ pc = "to_candidates_call"
    /\ raw_trails \in SeqsUpTo(RawUniverse, MaxRaw)
    /\ user_question = <<>>
    /\ candidates = <<>>
    /\ stages = <<>>
    /\ scored_candidates = <<>>
    /\ query_text = <<>>
    /\ collection = "trilhas"
    /\ max_results = 0
    /\ ranked = <<>>
    /\ NoOutput
    /\ NoCall

NextNorm == Convert

SpecNorm == InitNorm /\ [][NextNorm]_vars

\* the record has a UUID text in publicId or in id
HasParsableId(r) ==
    \/ r.publicId.t = "str" /\ r.publicId.k >= 1
    \/ r.id.t = "str" /\ r.id.k >= 1

ParsableIdOf(r) ==
    IF r.publicId.t = "str" /\ r.publicId.k >= 1 THEN r.publicId.k ELSE r.id.k

\* a text field of a raw record that the schema takes: a string, absent, or
\* a falsy value replaced by the default
TextOrAbsent(x) == x.t \in {"none", "str"} \/ ~Truthy(x)

\* the text the candidate holds for a text field: the string, or "" when the
\* value is absent or falsy
TextTaken(x) == IF Truthy(x) THEN x.v ELSE <<>>

\* the record is one from_source accepts: the identifier read is publicId, or
\* id when publicId is absent or empty, and it is a UUID text; each text
\* field is a string, absent or falsy
Accepted(r) ==
    /\ IF r.publicId.t = "str" THEN r.publicId.k >= 1
       ELSE r.id.t = "str" /\ r.id.k >= 1
    /\ TextOrAbsent(r.title)
    /\ TextOrAbsent(r.slug)
    /\ TextOrAbsent(IF Truthy(r.description) THEN r.description ELSE r.summary)

AcceptedIdOf(r) == IF r.publicId.t = "str" THEN r.publicId.k ELSE r.id.k

\* C10 as stated: to_candidates returns one candidate per raw record that has
\* a parsable UUID identifier (publicId or id), in input order, and raises
\* exactly when no record has one.
C10_OnePerParsableId ==
    pc \in {"to_candidates_done", "raised"} =>
        LET expect == SeqFilter(raw_trails, HasParsableId)
        IN /\ (pc = "raised") <=> (expect = <<>>)
           /\ pc = "to_candidates_done" =>
                 /\ Len(candidates) = Len(expect)
                 /\ \A i \in DOMAIN expect :
                       candidates[i].publicId = ParsableIdOf(expect[i])

\* C10, amended: to_candidates returns, in input order, one candidate for each
\* record from_source accepts (its identifier, publicId or else id, is a UUID
\* text and each text field is a string, absent or falsy), with the stripped
\* title of the record, the empty title for an absent or falsy one; it skips
\* every other record without aborting, and raises exactly when no record is
\* accepted, the empty batch included.
C10_OnePerAccepted ==
    pc \in {"to_candidates_done", "raised"} =>
        LET expect == SeqFilter(raw_trails, Accepted)
        IN /\ (pc = "raised") <=> (expect = <<>>)
           /\ pc = "to_candidates_done" =>
                 /\ Len(candidates) = Len(expect)
                 /\ \A i \in DOMAIN expect :
                       /\ candidates[i].publicId = AcceptedIdOf(expect[i])
                       /\ candidates[i].title = Strip(TextTaken(expect[i].title))

\* a batch of three: two accepted records around one that holds a UUID text
\* and is rejected all the same for its title 7; the last one has the title
\* 0 and is accepted with an empty title; two candidates in input order
C10_Witness ==
    /\ pc = "to_candidates_done"
    /\ Len(raw_trails) = 3
    /\ Accepted(raw_trails[1])
    /\ HasParsableId(raw_trails[2]) /\ ~Accepted(raw_trails[2])
    /\ raw_trails[2].title = IntVal(<<"7">>)
    /\ Accepted(raw_trails[3])
    /\ raw_trails[3].title = IntVal(<<"0">>)
    /\ Len(candidates) = 2
    /\ candidates[1].publicId = AcceptedIdOf(raw_trails[1])
    /\ candidates[2].publicId = AcceptedIdOf(raw_trails[3])
    /\ candidates[2].title = <<>>
    /\ candidates[1].publicId # candidates[2].publicId

-----------------------------------------------------------------------------
(* SpecOutput: build_output then apply_business_rules on any ranked list,  *)
(* and apply_business_rules called on an envelope of its own              *)

\* longest ranked list handed to build_output
MaxRanked == 2

\* a ScoredCandidate with a given final score
Scored(c, s) ==
    [candidate |-> c, match_score |-> Dec(s), applied_boosts |-> <<>>,
     base_score |-> s, score_semantic |-> NoScore, score_bm25 |-> Some(s),
     score_combined |-> NoScore]

RankedItems ==
    {Scored(c, s) : c \in {CandA, CandD}, s \in {0, 61, 74, 75, 99}}

\* reasons_by_id: empty, too short to keep, or made by make_reason
ReasonMaps(qtext) ==
    {<<>>,
     [p \in {1, 4} |-> <<" ", "o", "k", " ">>],
     [p \in {1, 4} |-> make_reason(Scored(IF p = 1 THEN CandA ELSE CandD, 75), qtext)]}

\* envelopes handed to apply_business_rules by a caller other than run():
\* either status, with or without a suggestion, the message the empty string
EmptyMessageEnvelopes ==
    {[build_output(rk, q_LogicaBI, 1, <<>>) EXCEPT !.status = st,
                                                    !.mensagem_padrao = ""] :
        rk \in SeqsUpTo(RankedItems, 1), st \in {"ok", "fora_do_escopo"}}

InitOutput ==
    /\ \/ /\ pc = "build_output_call"
          /\ ranked \in SeqsUpTo(RankedItems, MaxRanked)
          /\ query_text \in {q_LogicaBI, <<>>}
          /\ max_results \in {1, 2, 3}
          /\ reasons_by_id \in ReasonMaps(query_text)
          /\ output = <<>>
       \/ /\ pc = "apply_rules_call"
          /\ ranked = <<>>
          /\ query_text = q_LogicaBI
          /\ max_results = 1
          /\ reasons_by_id = <<>>
          /\ output \in EmptyMessageEnvelopes
    /\ collection = "trilhas"
    /\ scored_candidates = <<>>
    /\ final_output = <<>>
    /\ NoPipeline
    /\ NoCall

NextOutput == BuildOutput \/ ApplyRules

SpecOutput == InitOutput /\ [][NextOutput]_vars

\* C8: the envelope left by build_output followed by apply_business_rules is
\* coherent: status ok comes with at least one suggestion; status
\* fora_do_escopo comes with no suggestion and a non-empty mensagem_padrao.
C8_Coherence ==
    pc = "done" =>
        /\ final_output.status \in {"ok", "fora_do_escopo"}
        /\ final_output.status = "ok" => Len(final_output.suggested_trails) >= 1
        /\ final_output.status = "fora_do_escopo" =>
              /\ final_output.suggested_trails = <<>>
              /\ final_output.mensagem_padrao \notin {NoneStr, ""}

\* build_output answered ok with suggestions, the rules removed all of them,
\* and the envelope left is fora_do_escopo
C8_Witness ==
    /\ pc = "done"
    /\ output.status = "ok"
    /\ Len(output.suggested_trails) = 2
    /\ final_output.status = "fora_do_escopo"
    /\ final_output.suggested_trails = <<>>
    /\ final_output.mensagem_padrao = DEFAULT_EMPTY_MESSAGE

-----------------------------------------------------------------------------
(* reco/query_builder.py (snapshot hints already collected, dense synonyms *)
(* off and no length cap, as RecoConfig has them)                          *)

\* str.split(): the runs of non-blank characters
RECURSIVE SplitBlank(_, _)
SplitBlank(s, cur) ==
    IF s = <<>> THEN (IF cur = <<>> THEN <<>> ELSE <<cur>>)
    ELSE IF Head(s) = " "
         THEN (IF cur = <<>> THEN <<>> ELSE <<cur>>) \o SplitBlank(Tail(s), <<>>)
         ELSE SplitBlank(Tail(s), Append(cur, Head(s)))

\* _clean: " ".join(s.strip().split())
_clean(s) == Join(<<" ">>, SplitBlank(s, <<>>))

BlockSep == <<" ", "|", "|", " ">>
HintSep == <<";", " ">>

\* build (241-271), given what _collect_hints and _expand_synonyms_dense
\* returned: the blocks joined by " || "
build(uq, snap_hints, contexto_extra, syns) ==
    LET b_uq == IF _clean(uq) # <<>> THEN <<_clean(uq)>> ELSE <<>>
        b_hints == IF snap_hints # <<>> THEN <<Join(HintSep, snap_hints)>> ELSE <<>>
        b_cx == IF _clean(contexto_extra) # <<>> THEN <<_clean(contexto_extra)>>
                ELSE <<>>
        b_syns == IF syns # <<>> THEN <<Join(HintSep, syns)>> ELSE <<>>
        blocks == b_uq \o b_hints \o b_cx \o b_syns
    IN IF blocks = <<>> THEN <<>> ELSE Join(BlockSep, blocks)

-----------------------------------------------------------------------------
(* reco/pipeline.py: run(), one action per stage                           *)

\* scores the dense search may give a candidate: below the dominance floor,
\* in the fallback range, between the two thresholds in use, and above both
DenseScores == {58, 61, 73, 80}

\* DenseRetriever.search: one result per indexed candidate (the catalog is
\* smaller than TOP_K_DEFAULT), best score first; f gives the similarities
dense_search(cands, f) ==
    LET res == [i \in DOMAIN cands |->
                    [id |-> cands[i].publicId, score_semantic |-> f[i]]]
        higher(x, y) == x.score_semantic > y.score_semantic
    IN SortedBy(res, higher)

\* lines 229-230: id2cand keeps the last candidate of a publicId, and
\* [(id2cand[dr.id], dr.score_semantic) for dr in dense_res if dr.id in id2cand]
AdaptDense(cands, dense_res) ==
    LET known(dr) == \E i \in DOMAIN cands : cands[i].publicId = dr.id
        kept == SeqFilter(dense_res, known)
        id2cand(id) ==
            cands[CHOOSE i \in DOMAIN cands :
                      /\ cands[i].publicId = id
                      /\ \A j \in DOMAIN cands : cands[j].publicId = id => j <= i]
    IN [i \in DOMAIN kept |-> Legacy(id2cand(kept[i].id), kept[i].score_semantic)]

\* _map_reasons: a reason per publicId of the first limit ranked entries;
\* the loop overwrites, so the last entry of a publicId gives its reason
_map_reasons(rk, qtext, limit) ==
    LET topk == Take(rk, Max(1, Min(limit, Len(rk))))
        last(p) == CHOOSE i \in DOMAIN topk :
                       /\ topk[i].candidate.publicId = p
                       /\ \A j \in DOMAIN topk :
                              topk[j].candidate.publicId = p => j <= i
    IN [p \in {topk[i].candidate.publicId : i \in DOMAIN topk} |->
           make_reason(topk[last(p)], qtext)]

\* the stage after normalisation that always goes on to build the query
AfterNormalize_NoEarlyReturn(cands) == "build_query"

\* line 175: if not candidates, answer at once
AfterNormalize(cands) ==
    IF cands = <<>> THEN "empty_catalog" ELSE "build_query"

\* lines 170-173: to_candidates, dedupe_by_public_id, filter_by_status
Normalize ==
    /\ pc = "run_start"
    /\ LET r == to_candidates(raw_trails)
           kept == filter_by_status(dedupe_by_public_id(r.value), ALLOWED_STATUS)
       IN IF r.raised
          THEN /\ pc' = "raised"
               /\ candidates' = <<>>
          ELSE /\ pc' = AfterNormalize(kept)
               /\ candidates' = kept
    /\ stages' = Append(stages, "normalize")
    /\ UNCHANGED callVars
    /\ UNCHANGED <<user_question, raw_trails, scored_candidates, query_text,
                   collection, max_results, ranked, reasons_by_id, output,
                   final_output>>

\* lines 176-181: build_output(ranked=[], query_text=user_question, ...)
EmptyCatalog ==
    /\ pc = "empty_catalog"
    /\ output' = build_output(<<>>, user_question, max_results, <<>>)
    /\ pc' = "apply_rules_call"
    /\ UNCHANGED callVars
    /\ UNCHANGED <<user_question, raw_trails, candidates, scored_candidates,
                   query_text, collection, max_results, ranked, reasons_by_id,
                   final_output, stages>>

\* lines 185-190: build_query, for a snapshot with no hint and no contexto_extra
BuildQuery ==
    /\ pc = "build_query"
    /\ query_text' = build(user_question, <<>>, <<>>, <<>>)
    /\ pc' = "retrieve"
    /\ stages' = Append(stages, "build_query")
    /\ UNCHANGED callVars
    /\ UNCHANGED <<user_question, raw_trails, candidates, scored_candidates,
                   collection, max_results, ranked, reasons_by_id, output,
                   final_output>>

\* the attributes _item_vector_text reads of a candidate (lines 63-70)
VectorTextFields ==
    {"title", "subtitle", "description", "topics", "tags", "combined_text"}

\* _item_vector_text(cand) raises AttributeError: TrailCandidate has no
\* attribute subtitle (line 65) and none called topics (line 67)
ItemVectorTextRaises(cand) == VectorTextFields \ DOMAIN cand # {}

\* _build_vector_index_for_trilhas raises: line 88 calls _item_vector_text
\* for each candidate before anything is embedded or indexed
BuildVectorIndexRaises(cands) ==
    \E i \in DOMAIN cands : ItemVectorTextRaises(cands[i])

\* lines 193-230 with USE_HYBRID off: index the candidates, dense search,
\* adapt the results to (candidate, score) pairs.  Building the index reads
\* attributes no TrailCandidate has, so with any candidate the run ends here
\* with AttributeError and scored_candidates is never assigned.
Retrieve ==
    /\ pc = "retrieve"
    /\ IF BuildVectorIndexRaises(candidates)
       THEN /\ pc' = "raised"
            /\ scored_candidates' = scored_candidates
            /\ stages' = Append(stages, "index")
       ELSE /\ \E f \in [DOMAIN candidates -> DenseScores] :
                  scored_candidates' =
                      AdaptDense(candidates, dense_search(candidates, f))
            /\ pc' = "rank_call"
            /\ stages' = stages \o <<"index", "retrieve">>
    /\ UNCHANGED callVars
    /\ UNCHANGED <<user_question, raw_trails, candidates, query_text, collection,
                   max_results, ranked, reasons_by_id, output, final_output>>

\* line 242: _map_reasons(ranked, query_text, limit=max_results)
MapReasons ==
    /\ pc = "rank_done"
    /\ reasons_by_id' = _map_reasons(ranked, query_text, max_results)
    /\ pc' = "build_output_call"
    /\ stages' = Append(stages, "explain")
    /\ UNCHANGED callVars
    /\ UNCHANGED <<user_question, raw_trails, candidates, scored_candidates,
                   query_text, collection, max_results, ranked, output,
                   final_output>>

\* longest raw catalog of a run
MaxCatalog == 2

\* RawA as a draft with one more field filled
RawDraftFull == [RawA EXCEPT !.description = StrVal(t_Dados),
                             !.status = StrVal(t_Draft)]

CatalogRaws == {RawA, RawD, RawDraftA, RawDraftFull}

\* user questions as TrailInput holds them: stripped, 8 to 500 characters
uq_LogicaBI == t_Logica \o <<" ", " ">> \o t_BI
UserQuestions == {uq_LogicaBI, q_DadosBI}

Init ==
    /\ pc = "run_start"
    /\ raw_trails \in SeqsUpTo(CatalogRaws, MaxCatalog)
    /\ user_question \in UserQuestions
    /\ max_results \in 1..MAX_SUGGESTIONS
    /\ collection = "trilhas"
    /\ candidates = <<>>
    /\ scored_candidates = <<>>
    /\ query_text = <<>>
    /\ ranked = <<>>
    /\ stages = <<>>
    /\ NoOutput
    /\ NoCall

\* run(): the stages after the failing index build (lines 233-252) are
\* never reached
Next ==
    \/ Normalize
    \/ EmptyCatalog
    \/ BuildQuery
    \/ Retrieve
    \/ ApplyRules

Spec == Init /\ [][Next]_vars

\* SpecRanked: lines 233-252 of run(), entered with the candidates of a
\* catalog and a scored list as dense retrieval is specified to give it (one
\* similarity per candidate, best first)
InitRanked ==
    /\ pc = "rank_call"
    /\ raw_trails \in SeqsUpTo(CatalogRaws, MaxCatalog)
    /\ user_question \in UserQuestions
    /\ max_results \in 1..MAX_SUGGESTIONS
    /\ collection = "trilhas"
    /\ ~to_candidates(raw_trails).raised
    /\ candidates = filter_by_status(
                        dedupe_by_public_id(to_candidates(raw_trails).value),
                        ALLOWED_STATUS)
    /\ candidates # <<>>
    /\ query_text = build(user_question, <<>>, <<>>, <<>>)
    /\ \E f \in [DOMAIN candidates -> DenseScores] :
          scored_candidates = AdaptDense(candidates, dense_search(candidates, f))
    /\ ranked = <<>>
    /\ stages = <<"normalize", "build_query", "index", "retrieve">>
    /\ NoOutput
    /\ NoCall

NextRanked ==
    \/ Rank
    \/ MapReasons
    \/ BuildOutput
    \/ ApplyRules

SpecRanked == InitRanked /\ [][NextRanked]_vars

\* SpecStages: every stage of run(), the runs from the start together with
\* the stages entered after retrieval
InitStages == Init \/ InitRanked

NextStages ==
    \/ Normalize
    \/ EmptyCatalog
    \/ BuildQuery
    \/ Retrieve
    \/ Rank
    \/ MapReasons
    \/ BuildOutput
    \/ ApplyRules

SpecStages == InitStages /\ [][NextStages]_vars

\* C7: in a run that reaches the ranking stage, every entry rank() returned
\* is a suggestion of the final envelope, with its score, and the envelope
\* has status ok when rank() returned an entry, the dominance-fallback entry
\* included.
C7_RankedSurvive ==
    (pc = "done" /\ \E i \in DOMAIN stages : stages[i] = "rank") =>
        /\ \A i \in DOMAIN ranked :
              \E k \in DOMAIN final_output.suggested_trails :
                  /\ final_output.suggested_trails[k].publicId =
                         ranked[i].candidate.publicId
                  /\ final_output.suggested_trails[k].match_score =
                         ranked[i].match_score
        /\ ranked # <<>> => final_output.status = "ok"

\* C9: when the status filter leaves no candidate, the run ends, without
\* raising and without query, index, retrieval or ranking stage, in the
\* envelope an empty ranked list gives: fora_do_escopo, no suggestion, the
\* fixed message and the call to action 'Tentar de novo'.  A run without
\* candidates raises only when to_candidates accepted no record.
C9_EmptyCatalog ==
    /\ (pc \notin {"run_start", "raised"} /\ candidates = <<>>) =>
          /\ pc \in {"empty_catalog", "apply_rules_call", "done"}
          /\ stages = <<"normalize">>
          /\ query_text = <<>> /\ scored_candidates = <<>> /\ ranked = <<>>
    /\ (pc = "done" /\ ranked = <<>>) =>
          /\ final_output.status = "fora_do_escopo"
          /\ final_output.suggested_trails = <<>>
          /\ final_output.mensagem_padrao = DEFAULT_EMPTY_MESSAGE
          /\ final_output.cta = CTA_EMPTY
    /\ (pc = "raised" /\ candidates = <<>>) =>
          \A i \in DOMAIN raw_trails : ~Accepted(raw_trails[i])

\* a catalog of accepted records, none of them Published, answered with the
\* fora_do_escopo envelope
C9_Witness ==
    /\ pc = "done"
    /\ raw_trails # <<>>
    /\ \A i \in DOMAIN raw_trails : Accepted(raw_trails[i])
    /\ candidates = <<>>
    /\ final_output.status = "fora_do_escopo"
    /\ final_output.cta = CTA_EMPTY

-----------------------------------------------------------------------------
(* SpecDedupe: dedupe_by_public_id applied to every bounded candidate list *)

\* longest candidate list handed to dedupe_by_public_id
MaxDup == 3

\* identifier 1 again, as complete as RawA with other fields filled
RawADesc == [RawBase EXCEPT !.publicId = UuidText(1), !.title = StrVal(t_Logica),
                            !.slug = StrVal(<<"l", "o", "g">>),
                            !.tags = <<t_BI>>, !.description = StrVal(t_Dados),
                            !.status = StrVal(t_Published)]
\* the title of RawA under another identifier, with a slug that sorts first
RawF == [RawBase EXCEPT !.publicId = UuidText(6), !.title = StrVal(t_Logica),
                        !.slug = StrVal(<<"a", "l", "f", "a">>),
                        !.status = StrVal(t_Published)]

DedupeCands ==
    {CandOf(r) : r \in {RawA, RawADesc, RawDraftA, RawB, RawC, RawE, RawF}}

\* dedupe_by_public_id(arg)
Dedupe ==
    /\ pc = "dedupe_call"
    /\ ret' = dedupe_by_public_id(arg)
    /\ pc' = "dedupe_done"
    /\ UNCHANGED <<user_question, raw_trails, candidates, scored_candidates,
                   query_text, collection, max_results, ranked, reasons_by_id,
                   output, final_output, stages, arg, vindex>>

\* a pipeline state in which no stage has run
IdleRun ==
    /\ scored_candidates = <<>>
    /\ query_text = <<>>
    /\ collection = "trilhas"
    /\ max_results = 0
    /\ ranked = <<>>
    /\ NoPipeline
    /\ NoOutput

InitDedupe ==
    /\ pc = "dedupe_call"
    /\ arg \in SeqsUpTo(DedupeCands, MaxDup)
    /\ ret = <<>>
    /\ vindex = <<>>
    /\ IdleRun

NextDedupe == Dedupe

SpecDedupe == InitDedupe /\ [][NextDedupe]_vars

\* the number of non-empty fields among slug, title, difficulty, description,
\* tags and combined_text
FilledFields(c) ==
    Cardinality({f \in {"slug", "title", "description", "tags", "combined_text"} :
                    c[f] # <<>>})
    + (IF c.difficulty # NoneStr THEN 1 ELSE 0)

\* C11: dedupe_by_public_id returns exactly one candidate per identifier of
\* the input, the first-seen among the most complete records of that
\* identifier, and the list is ordered by (title, slug, identifier), title
\* and slug compared case-folded.
C11_DedupeByPublicId ==
    pc = "dedupe_done" =>
        /\ {ret[i].publicId : i \in DOMAIN ret} = {arg[j].publicId : j \in DOMAIN arg}
        /\ \A i, k \in DOMAIN ret : i # k => ret[i].publicId # ret[k].publicId
        /\ \A i \in DOMAIN ret :
              \E j \in DOMAIN arg :
                  /\ ret[i] = arg[j]
                  /\ \A m \in DOMAIN arg :
                        arg[m].publicId = arg[j].publicId =>
                            \/ FilledFields(arg[m]) < FilledFields(arg[j])
                            \/ FilledFields(arg[m]) = FilledFields(arg[j]) /\ j <= m
        /\ \A i, k \in DOMAIN ret :
              i < k =>
                  LET ti == Casefold(ret[i].title)  tk == Casefold(ret[k].title)
                      si == Casefold(ret[i].slug)   sk == Casefold(ret[k].slug)
                  IN \/ StrLess(ti, tk)
                     \/ ti = tk /\ StrLess(si, sk)
                     \/ ti = tk /\ si = sk /\ ret[i].publicId < ret[k].publicId

\* three records of one identifier: a sparse one, then two equally complete
\* ones that differ; the first of the two is the one returned
C11_Witness ==
    /\ pc = "dedupe_done"
    /\ Len(arg) = 3
    /\ arg[1].publicId = arg[2].publicId /\ arg[2].publicId = arg[3].publicId
    /\ FilledFields(arg[1]) < FilledFields(arg[2])
    /\ FilledFields(arg[2]) = FilledFields(arg[3])
    /\ arg[2] # arg[3]
    /\ ret = <<arg[2]>>

-----------------------------------------------------------------------------
(* SpecFilter: filter_by_status called on its own, and the pipeline runs   *)

\* longest candidate list handed to filter_by_status
MaxFilter == 3

RawNoStatus == [RawBase EXCEPT !.publicId = UuidText(7), !.title = StrVal(t_Zen)]
RawArchived == [RawBase EXCEPT !.publicId = UuidText(8), !.title = StrVal(t_Arte),
                               !.status = StrVal(<<"A", "R", "C", "H", "I", "V", "E", "D">>)]

FilterCands == {CandOf(r) : r \in {RawA, RawDraftA, RawNoStatus, RawArchived}}

\* allow-lists: the configured one, other spellings, an empty entry, none
AllowLists ==
    {ALLOWED_STATUS,
     << <<"P", "U", "B", "L", "I", "S", "H", "E", "D">>, w_draft >>,
     << <<" ">> \o w_published \o <<" ">>, <<>> >>,
     << w_archived >>,
     <<>>}

\* filter_by_status(arg.candidates, arg.allowed_status)
Filter ==
    /\ pc = "filter_call"
    /\ ret' = filter_by_status(arg.candidates, arg.allowed_status)
    /\ pc' = "filter_done"
    /\ UNCHANGED <<user_question, raw_trails, candidates, scored_candidates,
                   query_text, collection, max_results, ranked, reasons_by_id,
                   output, final_output, stages, arg, vindex>>

InitFilter ==
    \/ /\ pc = "filter_call"
       /\ arg \in [candidates : SeqsUpTo(FilterCands, MaxFilter),
                    allowed_status : AllowLists]
       /\ ret = <<>>
       /\ vindex = <<>>
       /\ IdleRun
    \/ Init
    \/ InitRanked

NextFilter ==
    \/ Filter
    \/ Normalize
    \/ EmptyCatalog
    \/ BuildQuery
    \/ Retrieve
    \/ Rank
    \/ MapReasons
    \/ BuildOutput
    \/ ApplyRules

SpecFilter == InitFilter /\ [][NextFilter]_vars

\* the candidate has a status and it is, letter case and outer blanks
\* aside, an entry of the allow-list
StatusAllowed(c, allowed) ==
    /\ c.status # NoneStr
    /\ \E i \in DOMAIN allowed :
          Casefold(Strip(allowed[i])) = Casefold(StatusText(c.status))

\* C12: filter_by_status returns exactly the input candidates whose status
\* matches an entry of the allow-list case-insensitively, in input order,
\* and never one without status; in a pipeline run every candidate that
\* reaches retrieval, ranking or the envelope has an allowed status.
C12_FilterByStatus ==
    /\ pc = "filter_done" =>
          LET cs == arg.candidates
              idx == {j \in DOMAIN cs : StatusAllowed(cs[j], arg.allowed_status)}
          IN /\ Len(ret) = Cardinality(idx)
             /\ \A j \in idx : ret[Cardinality({m \in idx : m <= j})] = cs[j]
    /\ pc \notin {"filter_call", "filter_done", "run_start"} =>
          /\ \A i \in DOMAIN candidates :
                StatusAllowed(candidates[i], ALLOWED_STATUS)
          /\ \A i \in DOMAIN scored_candidates :
                StatusAllowed(scored_candidates[i].candidate, ALLOWED_STATUS)
          /\ \A i \in DOMAIN ranked :
                StatusAllowed(ranked[i].candidate, ALLOWED_STATUS)
          /\ pc = "done" =>
                \A k \in DOMAIN final_output.suggested_trails :
                    \E i \in DOMAIN candidates :
                        candidates[i].publicId =
                            final_output.suggested_trails[k].publicId

\* an allow-list with an upper-case entry: a Published and a Draft candidate
\* returned in input order around a candidate without status, left out
C12_Witness ==
    /\ pc = "filter_done"
    /\ Len(arg.candidates) = 3
    /\ arg.candidates[1].status = "Draft"
    /\ arg.candidates[2].status = NoneStr
    /\ arg.candidates[3].status = "Published"
    /\ \A i \in DOMAIN arg.allowed_status :
          arg.allowed_status[i] \notin {StatusText("Published"), StatusText("Draft")}
    /\ ret = <<arg.candidates[1], arg.candidates[3]>>

-----------------------------------------------------------------------------
(* reco/index/vector_index.py: VectorIndex.  A vector is a tuple of        *)
(* integers, a score their dot product; a dict is the sequence of its      *)
(* (key, value) pairs in insertion order; a matrix that is None is <<>>.   *)

\* self._dim of the indexes built here
Dim == 2

Dot(u, v) == u[1] * v[1] + u[2] * v[2]

DictHas(d, key) == \E i \in DOMAIN d : d[i][1] = key
DictGet(d, key) == d[CHOOSE i \in DOMAIN d : d[i][1] = key][2]
DictSet(d, key, val) ==
    IF DictHas(d, key)
    THEN [i \in DOMAIN d |-> IF d[i][1] = key THEN <<key, val>> ELSE d[i]]
    ELSE Append(d, <<key, val>>)
RECURSIVE DictPop(_, _)
DictPop(d, key) ==
    IF d = <<>> THEN <<>>
    ELSE IF Head(d)[1] = key THEN Tail(d)
    ELSE <<Head(d)>> \o DictPop(Tail(d), key)

\* VectorItem
VectorItem(id, vector, metadata) == [id |-> id, vector |-> vector, metadata |-> metadata]

\* __init__: no ids, no matrix, no metadata
EmptyIndex(backend) == [backend |-> backend, ids |-> <<>>, matrix |-> <<>>, meta |-> <<>>]

\* size
size(ix) == Len(ix.ids)

\* id_to_pos[id] of _upsert_numpy: the last position that holds the id
LastPos(ids, id) == CHOOSE i \in DOMAIN ids : ids[i] = id /\ \A j \in DOMAIN ids : ids[j] = id => j <= i

\* the loop of _upsert_numpy (159-166): ids0 are the ids before the call
RECURSIVE UpsertNumpyLoop(_, _, _, _, _, _)
UpsertNumpyLoop(items, ids0, meta, matrix, vectors, ids) ==
    IF items = <<>> THEN [meta |-> meta, matrix |-> matrix, vectors |-> vectors, ids |-> ids]
    ELSE LET it == Head(items)
             m2 == DictSet(meta, it.id, it.metadata)
         IN IF \E i \in DOMAIN ids0 : ids0[i] = it.id
            THEN UpsertNumpyLoop(Tail(items), ids0, m2,
                     [matrix EXCEPT ![LastPos(ids0, it.id)] = it.vector], vectors, ids)
            ELSE UpsertNumpyLoop(Tail(items), ids0, m2, matrix,
                     Append(vectors, it.vector), Append(ids, it.id))

_upsert_numpy(ix, items) ==
    LET r == UpsertNumpyLoop(items, ix.ids, ix.meta, ix.matrix, <<>>, <<>>)
    IN [ix EXCEPT !.meta = r.meta,
                  !.matrix = r.matrix \o r.vectors,
                  !.ids = ix.ids \o r.ids]

\* the ids given to delete, as a set
IdSet(ids) == {ids[i] : i \in DOMAIN ids}

RECURSIVE PopAll(_, _)
PopAll(d, ids) == IF ids = <<>> THEN d ELSE PopAll(DictPop(d, Head(ids)), Tail(ids))

\* the rows of a sequence at the kept positions, in order
RECURSIVE KeepRows(_, _, _)
KeepRows(rows, keep, i) ==
    IF i > Len(rows) THEN <<>>
    ELSE (IF i \in keep THEN <<rows[i]>> ELSE <<>>) \o KeepRows(rows, keep, i + 1)

\* DeleteRows that leaves _meta as it is (the pops of lines 188-189, 194-195
\* and 284-285, 298-299 dropped)
DeleteRows_KeepMeta(ix, ids) ==
    IF ids = <<>> \/ ix.ids = <<>> THEN ix
    ELSE LET keep == {i \in DOMAIN ix.ids : ix.ids[i] \notin IdSet(ids)}
         IN [ix EXCEPT !.ids = KeepRows(ix.ids, keep, 1),
                       !.matrix = KeepRows(ix.matrix, keep, 1)]

\* _delete_numpy and _delete_faiss, alike but for the names of the fields
DeleteRows(ix, ids) ==
    IF ids = <<>> \/ ix.ids = <<>> THEN ix
    ELSE LET keep == {i \in DOMAIN ix.ids : ix.ids[i] \notin IdSet(ids)}
         IN [ix EXCEPT !.ids = KeepRows(ix.ids, keep, 1),
                       !.matrix = KeepRows(ix.matrix, keep, 1),
                       !.meta = PopAll(ix.meta, ids)]

_delete_numpy(ix, ids) == DeleteRows(ix, ids)

_delete_faiss(ix, ids) == DeleteRows(ix, ids)

\* next((it.vector for it in items if it.id == id_), None): the first one
FirstPos(ids, id) == CHOOSE i \in DOMAIN ids : ids[i] = id /\ \A j \in DOMAIN ids : ids[j] = id => i <= j

ItemIds(items) == [i \in DOMAIN items |-> items[i].id]

RECURSIVE SetAllMeta(_, _)
SetAllMeta(meta, items) ==
    IF items = <<>> THEN meta
    ELSE SetAllMeta(DictSet(meta, Head(items).id, Head(items).metadata), Tail(items))

\* the rebuild loop of _upsert_faiss (245-256) over the metadata dict
RECURSIVE RebuildFaiss(_, _, _, _)
RebuildFaiss(meta, items, ix, i) ==
    IF i > Len(meta) THEN [ids |-> <<>>, vecs |-> <<>>]
    ELSE LET id_ == meta[i][1]
             rest == RebuildFaiss(meta, items, ix, i + 1)
             inItems == \E j \in DOMAIN items : items[j].id = id_
         IN IF ~inItems /\ ix.matrix = <<>> THEN rest
            ELSE LET v == IF inItems THEN items[FirstPos(ItemIds(items), id_)].vector
                          ELSE ix.matrix[FirstPos(ix.ids, id_)]
                 IN [ids |-> <<id_>> \o rest.ids, vecs |-> <<v>> \o rest.vecs]

\* _upsert_faiss; the flat index holds the rows of _faiss_matrix
_upsert_faiss(ix, items) ==
    LET id_set == IdSet(ix.ids)
        updated == \E j \in DOMAIN items : items[j].id \in id_set
    IN IF updated
       THEN LET meta == SetAllMeta(ix.meta, items)
                r == RebuildFaiss(meta, items, ix, 1)
            IN [ix EXCEPT !.meta = meta, !.matrix = r.vecs, !.ids = r.ids]
       ELSE [ix EXCEPT !.ids = ix.ids \o ItemIds(items),
                       !.matrix = ix.matrix \o [i \in DOMAIN items |-> items[i].vector],
                       !.meta = SetAllMeta(ix.meta, items)]

\* the validation loop of upsert (113-115) finds a vector of another length
BadDim(items) == \E i \in DOMAIN items : Len(items[i].vector) # Dim

\* upsert that stores each item as soon as it is validated: the items
\* before the first bad one are in the index when the error is raised
upsert_ValidateAsYouGo(ix, items) ==
    LET good == IF BadDim(items)
                THEN SubSeq(items, 1, (CHOOSE i \in DOMAIN items :
                         Len(items[i].vector) # Dim
                         /\ \A j \in 1..(i - 1) : Len(items[j].vector) = Dim) - 1)
                ELSE items
        after == IF good = <<>> THEN ix
                 ELSE IF ix.backend = "faiss" THEN _upsert_faiss(ix, good)
                 ELSE _upsert_numpy(ix, good)
    IN [raised |-> BadDim(items), index |-> after]

\* upsert: the index after the call and whether ValueError was raised
upsert(ix, items) ==
    IF items = <<>> THEN [raised |-> FALSE, index |-> ix]
    ELSE IF BadDim(items) THEN [raised |-> TRUE, index |-> ix]
    ELSE IF ix.backend = "faiss" THEN [raised |-> FALSE, index |-> _upsert_faiss(ix, items)]
    ELSE [raised |-> FALSE, index |-> _upsert_numpy(ix, items)]

\* delete
delete(ix, ids) ==
    IF ids = <<>> THEN ix
    ELSE IF ix.backend = "faiss" THEN _delete_faiss(ix, ids)
    ELSE _delete_numpy(ix, ids)

\* meta.get(key)
MetaGet(md, key) == IF key \in DOMAIN md THEN md[key] ELSE NoneStr

\* an expected value of a filter: a scalar, or a list/tuple/set of values
Scalar(v) == [many |-> FALSE, vals |-> {v}]
AnyOf(vs) == [many |-> TRUE, vals |-> vs]

\* _match_filters; filters is a dict key -> expected value
_match_filters(md, filters) ==
    \A i \in DOMAIN filters :
        LET val == MetaGet(md, filters[i][1])
            expected == filters[i][2]
        IN IF expected.many THEN val \in expected.vals
           ELSE \A e \in expected.vals : val = e

\* np.argsort(a) over the positions S of a: the orderings that make a
\* non-decreasing; the order of equal entries is the sorting algorithm's
RECURSIVE ArgSort(_, _)
ArgSort(a, S) ==
    IF S = {} THEN {<<>>}
    ELSE UNION {{<<x>> \o p : p \in ArgSort(a, S \ {x})} :
                   x \in {y \in S : \A z \in S : a[y] <= a[z]}}

\* np.argpartition(a, kth)[:kth + 1] (kth counted from 0): the positions
\* put at or before kth, none of them larger than one put after; their
\* order is left open, the argsort that follows settles it
ArgPartition(a, kth) ==
    {T \in SUBSET DOMAIN a :
        /\ Cardinality(T) = kth + 1
        /\ \A i \in T : \A j \in DOMAIN a \ T : a[i] <= a[j]}

\* the positions of ix.ids that pass the filters, ascending (np.where)
RECURSIVE WhereMatch(_, _, _)
WhereMatch(ix, filters, i) ==
    IF i > Len(ix.ids) THEN <<>>
    ELSE (IF _match_filters(DictGet(ix.meta, ix.ids[i]), filters) THEN <<i>> ELSE <<>>)
         \o WhereMatch(ix, filters, i + 1)

\* (id, score, metadata) of a row
Hit(ix, row, query_vec) ==
    <<ix.ids[row], Dot(ix.matrix[row], query_vec), DictGet(ix.meta, ix.ids[row])>>

\* _search_numpy that takes the top k of all rows and filters afterwards
_search_numpy_FilterAfter(ix, query_vec, k, filters) ==
    IF ix.matrix = <<>> \/ ix.ids = <<>> THEN {<<>>}
    ELSE LET k2 == Min(k, Len(ix.ids))
             neg == [i \in DOMAIN ix.ids |-> 0 - Dot(ix.matrix[i], query_vec)]
         IN UNION {{LET hits == [i \in DOMAIN o |-> Hit(ix, o[i], query_vec)]
                        keep(h) == _match_filters(h[3], filters)
                    IN SeqFilter(hits, keep) : o \in ArgSort(neg, topk_idx)} :
                   topk_idx \in ArgPartition(neg, k2 - 1)}

\* _search_numpy: the results the call can return.  kth + 1 = k whenever
\* k rows pass the filters, and is their number otherwise, so the slice
\* [:k] takes all of the partition's head
_search_numpy(ix, query_vec, k, filters) ==
    IF ix.matrix = <<>> \/ ix.ids = <<>> THEN {<<>>}
    ELSE LET k2 == Min(k, Len(ix.ids))
             idxs == IF filters # <<>> THEN WhereMatch(ix, filters, 1)
                     ELSE [i \in DOMAIN ix.ids |-> i]
             neg == [i \in DOMAIN idxs |-> 0 - Dot(ix.matrix[idxs[i]], query_vec)]
         IN IF idxs = <<>> THEN {<<>>}
            ELSE UNION {{[i \in DOMAIN o |-> Hit(ix, idxs[o[i]], query_vec)] :
                            o \in ArgSort(neg, topk_idx)} :
                        topk_idx \in ArgPartition(neg, Min(k2 - 1, Len(neg) - 1))}

\* faiss.IndexFlatIP.search(q, n) with n <= ntotal: n rows of largest
\* inner product, best first (exact search)
RECURSIVE BestFirst(_, _, _)
BestFirst(a, S, n) ==
    IF n = 0 \/ S = {} THEN {<<>>}
    ELSE UNION {{<<x>> \o p : p \in BestFirst(a, S \ {x}, n - 1)} :
                   x \in {y \in S : \A z \in S : a[y] <= a[z]}}

FlatSearch(matrix, query_vec, n) ==
    BestFirst([i \in DOMAIN matrix |-> 0 - Dot(matrix[i], query_vec)], DOMAIN matrix, n)

\* the post-filter loop of _search_faiss (316-324)
RECURSIVE PostFilter(_, _, _, _, _, _)
PostFilter(ix, query_vec, I, mask_ids, k, found) ==
    IF I = <<>> THEN found
    ELSE LET id_ == ix.ids[Head(I)]
             c2 == IF id_ \in mask_ids
                   THEN Append(found, Hit(ix, Head(I), query_vec))
                   ELSE found
         IN IF Len(c2) >= k THEN c2
            ELSE PostFilter(ix, query_vec, Tail(I), mask_ids, k, c2)

\* _search_faiss: the results the call can return
_search_faiss(ix, query_vec, k, filters) ==
    IF ix.ids = <<>> THEN {<<>>}
    ELSE IF filters # <<>>
    THEN LET mask_ids == {ix.ids[i] : i \in {j \in DOMAIN ix.ids :
                              _match_filters(DictGet(ix.meta, ix.ids[j]), filters)}}
         IN IF mask_ids = {} THEN {<<>>}
            ELSE {PostFilter(ix, query_vec, I, mask_ids, k, <<>>) :
                     I \in FlatSearch(ix.matrix, query_vec, Min(k * 4, Len(ix.ids)))}
    ELSE {[i \in DOMAIN I |-> Hit(ix, I[i], query_vec)] :
             I \in FlatSearch(ix.matrix, query_vec, Min(k, Len(ix.ids)))}

\* search: the outcomes the call can have, ValueError raised or the hits
search(ix, query_vec, k, filters) ==
    IF Len(query_vec) # Dim THEN {[raised |-> TRUE, hits |-> <<>>]}
    ELSE {[raised |-> FALSE, hits |-> h] :
             h \in IF ix.backend = "faiss" THEN _search_faiss(ix, query_vec, k, filters)
                   ELSE _search_numpy(ix, query_vec, k, filters)}

-----------------------------------------------------------------------------------------------------------------------------------------------------
(* SpecIndex: one index per backend, given the same calls                  *)

\* upsert and delete calls made before the search
MaxCalls == 3

md_Published == [status |-> "Published"]
md_Draft == [status |-> "Draft"]
md_Level == [nivel |-> "Beginner"]

\* a catalogue of five items; the Draft one scores lowest against <<1, 0>>
Bulk ==
    <<VectorItem("a", <<5, 1>>, md_Published), VectorItem("b", <<4, 2>>, md_Published),
      VectorItem("c", <<3, 3>>, md_Published), VectorItem("d", <<2, 4>>, md_Published),
      VectorItem("e", <<1, 4>>, md_Draft)>>

\* the batches given to upsert: none, new ids, an id named twice (new, and
\* to be updated), a vector of the wrong length after and before a valid item
Batches ==
    {<<>>,
     Bulk,
     <<VectorItem("a", <<5, 1>>, md_Draft), VectorItem("b", <<1, 4>>, md_Level)>>,
     <<VectorItem("c", <<3, 3>>, md_Published), VectorItem("c", <<2, 4>>, md_Draft)>>,
     <<VectorItem("a", <<1, 4>>, md_Draft), VectorItem("a", <<6, 1>>, md_Published)>>,
     <<VectorItem("b", <<2, 4>>, md_Draft), VectorItem("a", <<1>>, md_Published)>>,
     <<VectorItem("a", <<1, 0, 0>>, md_Published), VectorItem("d", <<2, 4>>, md_Draft)>>}

DeleteLists == {<<"a">>, <<"c", "e">>, <<"a", "b">>, <<"z">>}

\* the last query has the wrong length
QueryVecs == {<<1, 0>>, <<2, 1>>, <<1, 0, 0>>}

SearchKs == {1, 3}

FilterMaps ==
    {<<>>,
     << <<"status", Scalar("Draft")>> >>,
     << <<"status", AnyOf({"Published", "Draft"})>>, <<"nivel", Scalar(NoneStr)>> >>,
     << <<"nivel", AnyOf({"Advanced"})>> >>}

\* the arguments of a call and the number of calls made so far
CallArgs(items, ids, query_vec, k, filters, calls) ==
    [items |-> items, ids |-> ids, query_vec |-> query_vec, k |-> k,
     filters |-> filters, calls |-> calls]

\* what a call left behind: the indexes before it, whether it raised, and
\* for a search the hits of each backend
Outcome(call, before, raised, np, fa) ==
    [call |-> call, before |-> before, raised |-> raised, np |-> np, fa |-> fa]

\* upsert(items) on both indexes
Upsert ==
    /\ pc = "index"
    /\ arg.calls < MaxCalls
    /\ \E items \in Batches :
          LET n == upsert(vindex.np, items)
              f == upsert(vindex.fa, items)
          IN /\ vindex' = [np |-> n.index, fa |-> f.index]
             /\ ret' = Outcome("upsert", vindex, n.raised, <<>>, <<>>)
             /\ arg' = CallArgs(items, <<>>, <<>>, 0, <<>>, arg.calls + 1)
    /\ UNCHANGED runVars

\* delete(ids) on both indexes
Delete ==
    /\ pc = "index"
    /\ arg.calls < MaxCalls
    /\ \E ids \in DeleteLists :
          /\ vindex' = [np |-> delete(vindex.np, ids), fa |-> delete(vindex.fa, ids)]
          /\ arg' = CallArgs(<<>>, ids, <<>>, 0, <<>>, arg.calls + 1)
    /\ ret' = Outcome("delete", vindex, FALSE, <<>>, <<>>)
    /\ UNCHANGED runVars

\* search(query_vec, k, filters) on both indexes
Search ==
    /\ pc = "index"
    /\ \E query_vec \in QueryVecs, k \in SearchKs, filters \in FilterMaps :
          /\ \E n \in search(vindex.np, query_vec, k, filters) :
             \E f \in search(vindex.fa, query_vec, k, filters) :
                 ret' = Outcome("search", vindex, n.raised, n.hits, f.hits)
          /\ arg' = CallArgs(<<>>, <<>>, query_vec, k, filters, arg.calls)
    /\ pc' = "index_searched"
    /\ UNCHANGED <<user_question, raw_trails, candidates, scored_candidates,
                   query_text, collection, max_results, ranked, reasons_by_id,
                   output, final_output, stages, vindex>>

InitIndex ==
    /\ pc = "index"
    /\ vindex = [np |-> EmptyIndex("numpy"), fa |-> EmptyIndex("faiss")]
    /\ arg = CallArgs(<<>>, <<>>, <<>>, 0, <<>>, 0)
    /\ ret = Outcome("init", vindex, FALSE, <<>>, <<>>)
    /\ IdleRun

NextIndex == Upsert \/ Delete \/ Search

SpecIndex == InitIndex /\ [][NextIndex]_vars

\* the value stored under a key of a metadata dict, None when absent
ValueIn(md, key) == IF key \in DOMAIN md THEN md[key] ELSE NoneStr

\* the metadata passes every filter: equal to a scalar, among a list's values
Satisfies(md, filters) ==
    \A i \in DOMAIN filters :
        \/ filters[i][2].many /\ ValueIn(md, filters[i][1]) \in filters[i][2].vals
        \/ ~filters[i][2].many /\ filters[i][2].vals = {ValueIn(md, filters[i][1])}

\* the rows of an index whose metadata passes the filters
MatchingRows(ix, filters) ==
    {i \in DOMAIN ix.ids : Satisfies(DictGet(ix.meta, ix.ids[i]), filters)}

\* the last item of a batch that names the id
LastItem(items, id) ==
    items[CHOOSE i \in DOMAIN items :
              items[i].id = id /\ \A j \in DOMAIN items : items[j].id = id => j <= i]

\* C13: after any sequence of upsert and delete calls, each id is stored at
\* most once in each backend's index, an upserted id carries the vector and
\* metadata of its most recent upsert (the last item of the batch that names
\* it), and size() is the number of distinct ids upserted and not deleted.
C13_UpsertIdempotent ==
    (pc = "index" /\ ret.call \in {"upsert", "delete"} /\ ~ret.raised) =>
        \A b \in {"np", "fa"} :
            LET ix == vindex[b]
                was == IdSet(ret.before[b].ids)
            IN /\ \A i, j \in DOMAIN ix.ids : ix.ids[i] = ix.ids[j] => i = j
               /\ ret.call = "upsert" =>
                     /\ size(ix) = Cardinality(was \cup IdSet(ItemIds(arg.items)))
                     /\ \A id \in IdSet(ItemIds(arg.items)) :
                           \E i \in DOMAIN ix.ids :
                               /\ ix.ids[i] = id
                               /\ ix.matrix[i] = LastItem(arg.items, id).vector
                               /\ DictGet(ix.meta, id) = LastItem(arg.items, id).metadata
               /\ ret.call = "delete" =>
                     size(ix) = Cardinality(was \ IdSet(arg.ids))

\* C14: an upsert whose batch holds a vector of a length other than the
\* dimension raises and leaves both indexes as they were, also when valid
\* items come first; a search with such a query vector raises, and no
\* search changes the index.
C14_DimensionRejected ==
    /\ (ret.call = "upsert"
        /\ \E i \in DOMAIN arg.items : Len(arg.items[i].vector) # Dim) =>
           ret.raised /\ vindex = ret.before
    /\ (ret.call = "search" /\ Len(arg.query_vec) # Dim) => ret.raised
    /\ ret.call = "search" => vindex = ret.before

\* a non-empty index, a batch whose first item is valid and unlike what is
\* stored under its id, and whose second item has a vector too short
C14_Witness ==
    /\ ret.call = "upsert"
    /\ ret.raised
    /\ Len(arg.items) = 2
    /\ Len(arg.items[1].vector) = Dim
    /\ Len(arg.items[2].vector) # Dim
    /\ \E i \in DOMAIN ret.before.np.ids :
          /\ ret.before.np.ids[i] = arg.items[1].id
          /\ ret.before.np.matrix[i] # arg.items[1].vector
    /\ vindex = ret.before

\* C15: a search of the numpy index with k >= 1 returns min(k, number of
\* stored rows passing the filters) hits in non-increasing score order, each
\* a stored row that passes every filter with its dot product as score, and
\* no passing row left out scores higher than a returned one.
C15_NumpySearch ==
    (ret.call = "search" /\ ~ret.raised) =>
        LET ix == ret.before.np
            M == MatchingRows(ix, arg.filters)
            hits == ret.np
        IN /\ Len(hits) = Min(arg.k, Cardinality(M))
           /\ \A i \in DOMAIN hits : i < Len(hits) => hits[i][2] >= hits[i + 1][2]
           /\ \A i \in DOMAIN hits :
                 /\ Satisfies(hits[i][3], arg.filters)
                 /\ \E r \in M : /\ ix.ids[r] = hits[i][1]
                                  /\ Dot(ix.matrix[r], arg.query_vec) = hits[i][2]
                                  /\ DictGet(ix.meta, ix.ids[r]) = hits[i][3]
           /\ \A r \in M :
                 (\A i \in DOMAIN hits :
                      ~(hits[i][1] = ix.ids[r]
                        /\ hits[i][2] = Dot(ix.matrix[r], arg.query_vec))) =>
                 \A i \in DOMAIN hits : Dot(ix.matrix[r], arg.query_vec) <= hits[i][2]

\* k = 1 with a filter that two stored rows pass, both scoring below a row
\* that does not pass: the better of the two is the hit
C15_Witness ==
    /\ ret.call = "search"
    /\ ~ret.raised
    /\ arg.k = 1
    /\ arg.filters # <<>>
    /\ Len(ret.np) = 1
    /\ LET ix == ret.before.np
           M == MatchingRows(ix, arg.filters)
       IN /\ Cardinality(M) >= 2
          /\ \E r \in M : Dot(ix.matrix[r], arg.query_vec) < ret.np[1][2]
          /\ \E r \in DOMAIN ix.ids \ M : Dot(ix.matrix[r], arg.query_vec) > ret.np[1][2]

\* C16: given the same calls, the numpy and the faiss index answer a search
\* with the same ids in the same order up to ties in score, and with filters
\* each returns the k best-scoring rows among those that pass, wherever
\* they stand in the unfiltered order.
C16_BackendsAgree ==
    (ret.call = "search" /\ ~ret.raised) =>
        LET np == ret.before.np
            fa == ret.before.fa
            ScoredIn(ix, id, sc) ==
                \E r \in DOMAIN ix.ids : ix.ids[r] = id /\ Dot(ix.matrix[r], arg.query_vec) = sc
        IN /\ Len(ret.np) = Len(ret.fa)
           /\ \A i \in DOMAIN ret.np :
                 i <= Len(ret.fa) =>
                     /\ ret.np[i][2] = ret.fa[i][2]
                     /\ \/ ret.np[i][1] = ret.fa[i][1]
                        \/ /\ ScoredIn(np, ret.fa[i][1], ret.np[i][2])
                           /\ ScoredIn(fa, ret.np[i][1], ret.np[i][2])
           /\ Len(ret.np) = Min(arg.k, Cardinality(MatchingRows(np, arg.filters)))
           /\ Len(ret.fa) = Min(arg.k, Cardinality(MatchingRows(fa, arg.filters)))

-----------------------------------------------------------------------------
(* reco/query_builder.py: snapshot hints, dense synonyms, build().  A      *)
(* snapshot maps a dotted path to the list _as_list makes of its value     *)
(* (a lone string is a list of one); a path it lacks gives the empty list. *)

GENERIC_MARKERS ==
    {<<"n", "a~", "o", " ", "i", "n", "f", "o", "r", "m", "a", "d", "o">>,
     <<"n", "a", "o", " ", "i", "n", "f", "o", "r", "m", "a", "d", "o">>,
     <<"n", "/", "a">>,
     <<"n", "e", "n", "h", "u", "m">>,
     <<"n", "o", "n", "e">>,
     <<"d", "e", "s", "c", "o", "n", "h", "e", "c", "i", "d", "o">>,
     <<"i", "n", "d", "e", "f", "i", "n", "i", "d", "o">>}

\* _valid_hint
_valid_hint(text) ==
    IF text = <<>> THEN FALSE
    ELSE LET t == Casefold(_clean(text))
         IN IF Len(t) < 3 THEN FALSE ELSE t \notin GENERIC_MARKERS

\* _apply_length_cap
_apply_length_cap(text, cfg) ==
    IF cfg.QUERY_MAX_CHARS <= 0 \/ Len(text) <= cfg.QUERY_MAX_CHARS THEN text
    ELSE RStrip(SubSeq(text, 1, cfg.QUERY_MAX_CHARS))

\* _as_list(_get(snapshot, path))
_get(snapshot, path) == IF path \in DOMAIN snapshot THEN snapshot[path] ELSE <<>>

\* the paths read with _add, by section (the third section reads single fields)
SectionPaths ==
    <<<<"objetivos_carreira.objetivo_principal", "objetivos_carreira.objetivos_especificos", "objetivos_carreira.metas_temporais.curto_prazo">>,
      <<"preferencias_aprendizado.dificuldades_aprendizado", "situacao_academica.materias_dificuldade", "barreiras_desafios.tecnicas", "barreiras_desafios.sociais", "barreiras_desafios.financeiras", "barreiras_desafios.geograficas">>,
      <<>>,
      <<"interesses_pessoais.areas_curiosidade", "interesses_pessoais.atividades_extracurriculares", "interesses_pessoais.consumo_midia", "situacao_academica.materias_favoritas">>,
      <<"perfil_disc.caracteristicas_chave", "perfil_disc.areas_compatibilidade", "perfil_disc.pontos_atencao", "talentos_cliftonstrengths.talentos_dominantes", "talentos_cliftonstrengths.talentos_secundarios">>,
      <<"aspiracoes_profissionais.tipo_empresa", "aspiracoes_profissionais.tamanho_equipe", "aspiracoes_profissionais.disponibilidade_tempo", "aspiracoes_profissionais.impacto_desejado">>,
      <<"dados_pessoais.localizacao", "contexto_socioeconomico.origem">>>>

\* _add: a hint is the cleaned text and the section that gave it
RECURSIVE _add(_, _, _, _)
_add(hints, items, max_hints, section) ==
    IF items = <<>> \/ Len(hints) >= max_hints THEN hints
    ELSE _add(IF _valid_hint(Head(items))
              THEN Append(hints, [text |-> _clean(Head(items)), section |-> section])
              ELSE hints,
              Tail(items), max_hints, section)

\* the _add calls of one section, in order
RECURSIVE AddPaths(_, _, _, _, _)
AddPaths(hints, snapshot, paths, max_hints, section) ==
    IF paths = <<>> THEN hints
    ELSE AddPaths(_add(hints, _get(snapshot, Head(paths)), max_hints, section),
                  snapshot, Tail(paths), max_hints, section)

\* str(x or "") of a single field
FieldText(snapshot, path) ==
    IF _get(snapshot, path) = <<>> THEN <<>> ELSE _get(snapshot, path)[1]

l_Preferencia == <<"P", "r", "e", "f", "e", "r", "e^", "n", "c", "i", "a", ":", " ">>
l_Ritmo == <<"R", "i", "t", "m", "o", ":", " ">>
l_Horario == <<"H", "o", "r", "a'", "r", "i", "o", ":", " ">>
l_Recursos == <<"R", "e", "c", "u", "r", "s", "o", "s", ":", " ">>

\* pref_parts exactly as lines 139-151 build it: every listed resource
\* goes in once cleaned
PrefParts(snapshot) ==
    LET modalidade == FieldText(snapshot, "preferencias_aprendizado.modalidade_preferida")
        ritmo == FieldText(snapshot, "preferencias_aprendizado.ritmo_aprendizado")
        horario == FieldText(snapshot, "preferencias_aprendizado.horario_estudo")
        recursos == _get(snapshot, "preferencias_aprendizado.recursos_preferidos")
        first3 == Take(recursos, 3)
    IN (IF _valid_hint(modalidade) THEN <<l_Preferencia \o modalidade>> ELSE <<>>)
       \o (IF _valid_hint(ritmo) THEN <<l_Ritmo \o ritmo>> ELSE <<>>)
       \o (IF _valid_hint(horario) THEN <<l_Horario \o horario>> ELSE <<>>)
       \o (IF recursos # <<>>
           THEN <<l_Recursos \o Join(<<",", " ">>, [i \in DOMAIN first3 |-> _clean(first3[i])])>>
           ELSE <<>>)

\* the third section: the parts joined into one phrase
AddPrefs(hints, snapshot, max_hints) ==
    LET pref_parts == PrefParts(snapshot)
    IN IF pref_parts # <<>> /\ Len(hints) < max_hints
       THEN _add(hints, <<Join(HintSep, pref_parts)>>, max_hints, 3)
       ELSE hints

\* _collect_hints from section s on, with the return after each section
RECURSIVE CollectFrom(_, _, _, _)
CollectFrom(hints, snapshot, max_hints, s) ==
    LET h2 == IF s = 3 THEN AddPrefs(hints, snapshot, max_hints)
              ELSE AddPaths(hints, snapshot, SectionPaths[s], max_hints, s)
    IN IF s = Len(SectionPaths) THEN Take(h2, max_hints)
       ELSE IF Len(h2) >= max_hints THEN h2
       ELSE CollectFrom(h2, snapshot, max_hints, s + 1)

\* _collect_hints, each hint with its section
_collect_hints(snapshot, max_hints) == CollectFrom(<<>>, snapshot, max_hints, 1)

\* int(getattr(cfg, "SNAPSHOT_MAX_HINTS", 2) or 2)
MaxHintsOf(cfg) == IF cfg.SNAPSHOT_MAX_HINTS = 0 THEN 2 ELSE cfg.SNAPSHOT_MAX_HINTS

\* the snap_hints of build (249-252); NoSnapshot is a snapshot that is None
NoSnapshot == [none |-> TRUE]
SnapHints(snapshot, cfg) ==
    IF cfg.USE_SNAPSHOT_HINTS /\ snapshot # NoSnapshot
    THEN _collect_hints(snapshot, MaxHintsOf(cfg))
    ELSE <<>>

\* _tokenize_norm
_tokenize_norm(text) ==
    IF text = <<>> THEN <<>>
    ELSE WordRuns(Casefold(_strip_accents(text)), <<>>)

\* max_synonyms of _expand_synonyms_dense
MAX_SYNONYMS == 6

\* the loop over the synonyms of one key (215-222)
RECURSIVE SynLoop(_, _, _)
SynLoop(syns, seen, collected) ==
    IF syns = <<>> \/ Len(collected) >= MAX_SYNONYMS THEN [seen |-> seen, collected |-> collected]
    ELSE LET s_norm == Strip(Casefold(_strip_accents(Head(syns))))
         IN IF s_norm = <<>> \/ s_norm \in seen
            THEN SynLoop(Tail(syns), seen, collected)
            ELSE SynLoop(Tail(syns), seen \cup {s_norm}, Append(collected, _clean(Head(syns))))

\* the loop over the keys (211-223), the keys in the order given
RECURSIVE KeyLoop(_, _, _, _)
KeyLoop(keys, synonyms_map, seen, collected) ==
    IF keys = <<>> \/ Len(collected) >= MAX_SYNONYMS THEN collected
    ELSE IF ~DictHas(synonyms_map, Head(keys))
         THEN KeyLoop(Tail(keys), synonyms_map, seen, collected)
         ELSE LET r == SynLoop(DictGet(synonyms_map, Head(keys)), seen, collected)
              IN KeyLoop(Tail(keys), synonyms_map, r.seen, r.collected)

\* the orders in which a set can be iterated
RECURSIVE IterationOrders(_)
IterationOrders(S) ==
    IF S = {} THEN {<<>>}
    ELSE UNION {{<<x>> \o p : p \in IterationOrders(S \ {x})} : x \in S}

\* _expand_synonyms_dense: the lists the call can return.  keys is a set of
\* str, iterated in an order that Python's string hashing decides
_expand_synonyms_dense(uq, cfg) ==
    IF ~(cfg.USE_QUERY_SYNONYMS_DENSE /\ cfg.QUERY_SYNONYMS # <<>>) THEN {<<>>}
    ELSE LET toks == _tokenize_norm(uq)
             keys == {toks[i] : i \in {j \in DOMAIN toks : Len(toks[j]) > 3}}
         IN {KeyLoop(order, cfg.QUERY_SYNONYMS, {}, <<>>) : order \in IterationOrders(keys)}

\* build(user_question, snapshot, cfg, contexto_extra): what the call can
\* return, with the hints it collected
build_query(uq, snapshot, cfg, contexto_extra) ==
    LET snap_hints == SnapHints(snapshot, cfg)
        texts == [i \in DOMAIN snap_hints |-> snap_hints[i].text]
    IN {[query_text |-> _apply_length_cap(build(uq, texts, contexto_extra, syns), cfg),
         snap_hints |-> snap_hints] :
           syns \in _expand_synonyms_dense(uq, cfg)}

-----------------------------------------------------------------------------
(* SpecQuery: build() called twice with the same arguments                 *)

\* largest SNAPSHOT_MAX_HINTS configured
MaxK == 3

h_Dados == <<"D", "a", "d", "o", "s">>
h_Python == <<"P", "y", "t", "h", "o", "n">>
h_na == <<"n", "/", "a">>
h_ab == <<"a", "b">>
h_Ingles == <<"I", "n", "g", "l", "e", "s">>
h_Online == <<"O", "n", "l", "i", "n", "e">>
h_Nenhum == <<"N", "e", "n", "h", "u", "m">>
h_Videos == <<"V", "i", "d", "e", "o", "s">>
h_Jogos == <<"J", "o", "g", "o", "s">>
h_Recife == <<"R", "e", "c", "i", "f", "e">>
h_NaoInformado == <<" ", "n", "a~", "o", " ", " ", "i", "n", "f", "o", "r", "m", "a", "d", "o", " ">>

\* snapshots: per path read, no value, usable values, placeholders, a value
\* of two characters
Snapshots ==
    {("objetivos_carreira.objetivos_especificos" :> a)
       @@ ("barreiras_desafios.tecnicas" :> b)
       @@ ("preferencias_aprendizado.modalidade_preferida" :> c)
       @@ ("preferencias_aprendizado.recursos_preferidos" :> d)
       @@ ("interesses_pessoais.areas_curiosidade" :> e)
       @@ ("dados_pessoais.localizacao" :> f) :
         a \in {<<>>, <<h_Dados>>, <<h_na, h_Dados, h_Python>>},
         b \in {<<>>, <<h_ab>>, <<h_Ingles>>},
         c \in {<<>>, <<h_Online>>, <<h_Nenhum>>},
         d \in {<<>>, <<h_Videos>>, <<h_na>>},
         e \in {<<>>, <<h_Jogos>>},
         f \in {<<>>, <<h_Recife>>, <<h_NaoInformado>>}}

\* entries of RecoConfig.QUERY_SYNONYMS (config.py 148-164)
QUERY_SYNONYMS ==
    << <<<<"p", "r", "o", "g", "r", "a", "m", "a", "c", "a", "o">>,
         <<<<"p", "r", "o", "g", "r", "a", "m", "a", "r">>,
           <<"p", "r", "o", "g", "r", "a", "m", "a", "d", "o", "r">>,
           <<"c", "o", "d", "i", "n", "g">>,
           <<"c", "o", "d", "e", "r">>,
           <<"d", "e", "s", "e", "n", "v", "o", "l", "v", "e", "r">>,
           <<"d", "e", "v">>>>>>,
       <<<<"l", "o", "g", "i", "c", "a">>,
         <<<<"a", "l", "g", "o", "r", "i", "t", "m", "o">>,
           <<"a", "l", "g", "o", "r", "i", "t", "m", "o", "s">>,
           <<"r", "a", "c", "i", "o", "c", "i", "n", "i", "o">>>>>>,
       <<<<"j", "a", "v", "a", "s", "c", "r", "i", "p", "t">>,
         <<<<"j", "s">>,
           <<"j", "a", "v", "a", " ", "s", "c", "r", "i", "p", "t">>>>>>,
       <<<<"i", "n", "i", "c", "i", "a", "n", "t", "e">>,
         <<<<"b", "e", "g", "i", "n", "n", "e", "r">>,
           <<"b", "a", "s", "i", "c", "o">>,
           <<"d", "o", " ", "z", "e", "r", "o">>>>>>,
       <<<<"a", "u", "t", "o", "m", "a", "t", "i", "z", "a", "r">>,
         <<<<"a", "u", "t", "o", "m", "a", "c", "a", "o">>,
           <<"s", "c", "r", "i", "p", "t">>,
           <<"s", "c", "r", "i", "p", "t", "s">>,
           <<"m", "a", "c", "r", "o">>,
           <<"a", "u", "t", "o", "m", "a", "t", "i", "z", "a", "d", "o">>>>>>,
       <<<<"t", "r", "a", "b", "a", "l", "h", "o">>,
         <<<<"e", "m", "p", "r", "e", "s", "a">>,
           <<"s", "e", "r", "v", "i", "c", "o">>,
           <<"e", "x", "p", "e", "d", "i", "e", "n", "t", "e">>>>>>,
       <<<<"d", "a", "d", "o", "s">>,
         <<<<"d", "a", "t", "a">>,
           <<"c", "s", "v">>,
           <<"p", "l", "a", "n", "i", "l", "h", "a">>,
           <<"p", "l", "a", "n", "i", "l", "h", "a", "s">>,
           <<"a", "n", "a", "l", "i", "s", "e">>>>>>,
       <<<<"e", "x", "c", "e", "l">>,
         <<<<"p", "l", "a", "n", "i", "l", "h", "a">>,
           <<"p", "l", "a", "n", "i", "l", "h", "a", "s">>,
           <<"s", "p", "r", "e", "a", "d", "s", "h", "e", "e", "t">>,
           <<"x", "l", "s">>,
           <<"x", "l", "s", "x">>>>>>,
       <<<<"p", "y", "t", "h", "o", "n">>,
         <<<<"p", "y">>,
           <<"p", "y", "t", "h", "o", "n", "i", "c", "o">>,
           <<"p", "y", "t", "h", "o", "n", "i", "s", "t", "a">>>>>>,
       <<<<"i", "a">>,
         <<<<"i", "n", "t", "e", "l", "i", "g", "e", "n", "c", "i", "a", " ", "a", "r", "t", "i", "f", "i", "c", "i", "a", "l">>,
           <<"a", "i">>>>>>,
       <<<<"u", "x">>,
         <<<<"u", "s", "e", "r", " ", "e", "x", "p", "e", "r", "i", "e", "n", "c", "e">>,
           <<"u", "x", " ", "d", "e", "s", "i", "g", "n">>>>>>,
       <<<<"u", "i">>,
         <<<<"u", "s", "e", "r", " ", "i", "n", "t", "e", "r", "f", "a", "c", "e">>,
           <<"u", "i", " ", "d", "e", "s", "i", "g", "n">>>>>>,
       <<<<"d", "i", "r", "e", "i", "t", "o">>,
         <<<<"j", "u", "r", "i", "d", "i", "c", "o">>,
           <<"j", "u", "r", "i", "d", "i", "c", "a">>>>>>,
       <<<<"s", "a", "u", "d", "e">>,
         <<<<"s", "a", "u", "d", "e", " ", "m", "e", "n", "t", "a", "l">>>>>>,
       <<<<"n", "u", "t", "r", "i", "c", "a", "o">>,
         <<<<"n", "u", "t", "r", "i", "c", "i", "o", "n", "a", "l">>>>>> >>

uq_QueroAprender == <<"Q", "u", "e", "r", "o", " ", " ", "a", "p", "r", "e", "n", "d", "e", "r">>
uq_PythonDados == <<"P", "y", "t", "h", "o", "n", " ", "e", " ", "d", "a", "d", "o", "s">>
uq_PythonDadosLogica == <<"p", "y", "t", "h", "o", "n", " ", "d", "a", "d", "o", "s", " ", "l", "o'", "g", "i", "c", "a">>
uq_DadosExcel == <<"d", "a", "d", "o", "s", " ", "n", "o", " ", "e", "x", "c", "e", "l">>

RecoConfig(use_hints, k, max_chars, use_syn) ==
    [USE_SNAPSHOT_HINTS |-> use_hints, SNAPSHOT_MAX_HINTS |-> k,
     QUERY_MAX_CHARS |-> max_chars, USE_QUERY_SYNONYMS_DENSE |-> use_syn,
     QUERY_SYNONYMS |-> QUERY_SYNONYMS, VECTOR_MIN_DF |-> 1]

BuildArgs(uq, snapshot, cfg, contexto_extra) ==
    [user_question |-> uq, snapshot |-> snapshot, cfg |-> cfg,
     contexto_extra |-> contexto_extra]

NoResult == [query_text |-> <<>>, snap_hints |-> <<>>]

\* build(user_question, snapshot, cfg, contexto_extra)
BuildCall ==
    /\ pc = "query_call"
    /\ \E r \in build_query(arg.user_question, arg.snapshot, arg.cfg, arg.contexto_extra) :
          ret' = [ret EXCEPT !.first = r]
    /\ pc' = "query_built"
    /\ UNCHANGED <<user_question, raw_trails, candidates, scored_candidates,
                   query_text, collection, max_results, ranked, reasons_by_id,
                   output, final_output, stages, arg, vindex>>

\* the same call once more (another run of the interpreter)
BuildAgain ==
    /\ pc = "query_built"
    /\ \E r \in build_query(arg.user_question, arg.snapshot, arg.cfg, arg.contexto_extra) :
          ret' = [ret EXCEPT !.second = r]
    /\ pc' = "query_rebuilt"
    /\ UNCHANGED <<user_question, raw_trails, candidates, scored_candidates,
                   query_text, collection, max_results, ranked, reasons_by_id,
                   output, final_output, stages, arg, vindex>>

InitQuery ==
    /\ pc = "query_call"
    /\ \/ \E snapshot \in Snapshots, k \in 0..MaxK :
             arg = BuildArgs(uq_QueroAprender, snapshot, RecoConfig(TRUE, k, 0, FALSE), <<>>)
       \/ \E uq \in {uq_QueroAprender, uq_PythonDados, uq_PythonDadosLogica,
                      uq_DadosExcel},
             snapshot \in {NoSnapshot,
                           ("objetivos_carreira.objetivos_especificos" :> <<h_Dados>>)},
             use_hints \in BOOLEAN, max_chars \in {0, 30},
             contexto_extra \in {<<>>, h_Recife} :
             arg = BuildArgs(uq, snapshot, RecoConfig(use_hints, MaxK, max_chars, TRUE),
                             contexto_extra)
    /\ ret = [first |-> NoResult, second |-> NoResult]
    /\ vindex = <<>>
    /\ IdleRun

NextQuery == BuildCall \/ BuildAgain

SpecQuery == InitQuery /\ [][NextQuery]_vars

\* a value that is not empty, not under 3 characters, not a placeholder
Usable(v) ==
    /\ Len(_clean(v)) >= 3
    /\ Casefold(_clean(v)) \notin GENERIC_MARKERS

UsableIn(vals) == {i \in DOMAIN vals : Usable(vals[i])}

PrefFields ==
    <<"preferencias_aprendizado.modalidade_preferida",
      "preferencias_aprendizado.ritmo_aprendizado",
      "preferencias_aprendizado.horario_estudo">>

PrefLabels == <<l_Preferencia, l_Ritmo, l_Horario>>

\* the usable values found under a list of paths
RECURSIVE UsableCount(_, _)
UsableCount(snapshot, paths) ==
    IF paths = <<>> THEN 0
    ELSE Cardinality(UsableIn(_get(snapshot, Head(paths))))
         + UsableCount(snapshot, Tail(paths))

\* the valid phrases of a section; the learning preferences make one
\* phrase of their usable fields
ValidPhrases(snapshot, s) ==
    IF s = 3
    THEN (IF UsableCount(snapshot, PrefFields
                 \o <<"preferencias_aprendizado.recursos_preferidos">>) > 0
          THEN 1 ELSE 0)
    ELSE UsableCount(snapshot, SectionPaths[s])

RECURSIVE ValidBefore(_, _)
ValidBefore(snapshot, s) ==
    IF s <= 1 THEN 0
    ELSE ValidPhrases(snapshot, s - 1) + ValidBefore(snapshot, s - 1)

\* C17: the built query has at most K = SNAPSHOT_MAX_HINTS snapshot hints,
\* for every K >= 0, and a hint of a section is there only if the valid
\* phrases of all sections of higher priority number fewer than K.
C17_HintsBounded ==
    pc # "query_call" =>
        LET hints == ret.first.snap_hints
            K == arg.cfg.SNAPSHOT_MAX_HINTS
        IN /\ Len(hints) <= K
           /\ \A i \in DOMAIN hints :
                 ValidBefore(arg.snapshot, hints[i].section) < K

\* the learning-preferences phrase made of the usable fields alone
UsablePrefParts(snapshot) ==
    LET field(i) == FieldText(snapshot, PrefFields[i])
        part(i) == IF Usable(field(i)) THEN <<PrefLabels[i] \o field(i)>> ELSE <<>>
        recursos == Take(_get(snapshot, "preferencias_aprendizado.recursos_preferidos"), 3)
        good == SeqFilter(recursos, Usable)
    IN part(1) \o part(2) \o part(3)
       \o (IF good # <<>>
           THEN <<l_Recursos \o Join(<<",", " ">>, [i \in DOMAIN good |-> _clean(good[i])])>>
           ELSE <<>>)

\* C18: no empty, short or placeholder value of the snapshot contributes
\* text to the hints: every hint is a usable value of its section, cleaned,
\* or the learning-preferences phrase made of usable fields alone.
C18_NoGenericHints ==
    pc # "query_call" =>
        \A i \in DOMAIN ret.first.snap_hints :
            LET h == ret.first.snap_hints[i]
            IN IF h.section = 3
               THEN h.text = _clean(Join(HintSep, UsablePrefParts(arg.snapshot)))
               ELSE \E j \in DOMAIN SectionPaths[h.section] :
                        \E m \in DOMAIN _get(arg.snapshot, SectionPaths[h.section][j]) :
                            LET v == _get(arg.snapshot, SectionPaths[h.section][j])[m]
                            IN Usable(v) /\ h.text = _clean(v)

\* C19: two calls of build() with equal inputs return the same query
\* string, whatever order an internal set is iterated in.
C19_Deterministic ==
    pc = "query_rebuilt" => ret.first.query_text = ret.second.query_text

-----------------------------------------------------------------------------
(* reco/indexer.py: score(), the TF-IDF scorer                             *)

\* the terms TfidfVectorizer draws from a text: lower-cased, accents
\* stripped, runs of two or more word characters (the one-word n-grams;
\* a longer n-gram occurs in no more documents than its words)
TermsOf(text) ==
    LET runs == WordRuns(Casefold(_strip_accents(text)), <<>>)
    IN {runs[i] : i \in {j \in DOMAIN runs : Len(runs[j]) >= 2}}

\* _prepare_corpus
_prepare_corpus(cands) == [i \in DOMAIN cands |-> Strip(cands[i].combined_text)]

\* fit_transform raises ValueError: no term is left in the vocabulary, none
\* found or none in min_df documents
FitFails(corpus, cfg) ==
    ~\E i \in DOMAIN corpus : \E t \in TermsOf(corpus[i]) :
        Cardinality({j \in DOMAIN corpus : t \in TermsOf(corpus[j])}) >= cfg.VECTOR_MIN_DF

\* [(c, 0.0) for c in candidates]
ZeroScores(cands) == [i \in DOMAIN cands |-> <<cands[i], 0>>]

\* score: the pairs returned, or an exception raised.  Line 118 reads
\* cfg.NORMALIZE_MIN and cfg.NORMALIZE_MAX, attributes RecoConfig does not
\* have (config.py 24-136): AttributeError, after the similarities are
\* computed and before any is returned
score(qtext, cands, cfg) ==
    IF cands = <<>> THEN [raised |-> FALSE, pairs |-> <<>>]
    ELSE IF Strip(qtext) = <<>> THEN [raised |-> FALSE, pairs |-> ZeroScores(cands)]
    ELSE IF FitFails(_prepare_corpus(cands), cfg)
         THEN [raised |-> FALSE, pairs |-> ZeroScores(cands)]
    ELSE [raised |-> TRUE, pairs |-> <<>>]

-----------------------------------------------------------------------------
(* SpecScore: score() called on its own                                    *)

\* longest candidate list given to score
MaxScored == 2

\* a record with an identifier and nothing else, and one titled "X"
RawBare == [RawBase EXCEPT !.publicId = UuidText(9)]
RawOneLetter == [RawBase EXCEPT !.publicId = UuidText(10), !.title = StrVal(<<"X">>)]

ScoreCands == {CandOf(r) : r \in {RawA, RawB, RawBare, RawOneLetter}}

ScoreQueries == {<<>>, <<" ", " ">>, q_LogicaBI}

ScoreConfigs ==
    {RecoConfig(TRUE, MAX_SUGGESTIONS, 0, FALSE),
     [RecoConfig(TRUE, MAX_SUGGESTIONS, 0, FALSE) EXCEPT !.VECTOR_MIN_DF = 2]}

\* score(query_text, candidates, cfg)
Score ==
    /\ pc = "score_call"
    /\ ret' = score(arg.query_text, arg.candidates, arg.cfg)
    /\ pc' = "score_done"
    /\ UNCHANGED <<user_question, raw_trails, candidates, scored_candidates,
                   query_text, collection, max_results, ranked, reasons_by_id,
                   output, final_output, stages, arg, vindex>>

InitScore ==
    /\ pc = "score_call"
    /\ arg \in [query_text : ScoreQueries,
                 candidates : SeqsUpTo(ScoreCands, MaxScored),
                 cfg : ScoreConfigs]
    /\ ret = [raised |-> FALSE, pairs |-> <<>>]
    /\ vindex = <<>>
    /\ IdleRun

NextScore == Score

SpecScore == InitScore /\ [][NextScore]_vars

\* C20: score() returns without raising, one (candidate, score) pair per
\* input candidate in input order, and every score is 0 when the query is
\* empty or the vectorizer finds no vocabulary.
C20_ScoreShape ==
    pc = "score_done" =>
        /\ ~ret.raised
        /\ Len(ret.pairs) = Len(arg.candidates)
        /\ \A i \in DOMAIN ret.pairs : ret.pairs[i][1] = arg.candidates[i]
        /\ (\/ \A j \in DOMAIN arg.query_text : arg.query_text[j] = " "
            \/ \A j \in DOMAIN arg.candidates :
                   TermsOf(arg.candidates[j].combined_text) = {}) =>
               \A i \in DOMAIN ret.pairs : ret.pairs[i][2] = 0

\* ---------------------------------------------------------------------
\* reco/data_loader_api.py : HTTP client of the trails catalog
\* ---------------------------------------------------------------------

\* A server reply as the client sees it: either client.request raised
\* exception exc, or it returned a response with a status code and a body.
\* A body is described by what resp.json() yields: kind "list" (a JSON
\* array), "dict" (a JSON object, has_items telling whether it has the key
\* "items"), "scalar" (another JSON value) or "notjson" (resp.json() raises).
NoToken == <<>>

Item(pid) == [dict |-> TRUE, publicId |-> pid]
NotADict == [dict |-> FALSE, publicId |-> "1"]

Body(kind, has_items, items, token) ==
    [kind |-> kind, has_items |-> has_items, items |-> items, token |-> token]

NoBody == Body("dict", FALSE, <<>>, NoToken)

Reply(status, body) == [exc |-> "", status |-> status, body |-> body]
Failure(exc) == [exc |-> exc, status |-> 0, body |-> NoBody]
NoReply == Failure("none")

\* The httpx exception classes named at data_loader_api.py 58-63 and
\* 149-150.
TransientErrors ==
    {"ConnectError", "ReadError", "NetworkError", "RemoteProtocolError",
     "PoolTimeout", "WriteError"}

\* The classes an httpx transport exception is an instance of: its own
\* class and its bases (NetworkError has the subclasses ConnectError,
\* ReadError, WriteError and CloseError; TimeoutException and ProtocolError
\* are not among the classes named).
HttpxClasses ==
    [ConnectError |-> {"ConnectError", "NetworkError", "TransportError"},
     ReadError |-> {"ReadError", "NetworkError", "TransportError"},
     WriteError |-> {"WriteError", "NetworkError", "TransportError"},
     CloseError |-> {"CloseError", "NetworkError", "TransportError"},
     NetworkError |-> {"NetworkError", "TransportError"},
     RemoteProtocolError |->
         {"RemoteProtocolError", "ProtocolError", "TransportError"},
     LocalProtocolError |->
         {"LocalProtocolError", "ProtocolError", "TransportError"},
     PoolTimeout |-> {"PoolTimeout", "TimeoutException", "TransportError"},
     ConnectTimeout |->
         {"ConnectTimeout", "TimeoutException", "TransportError"},
     ReadTimeout |-> {"ReadTimeout", "TimeoutException", "TransportError"},
     WriteTimeout |-> {"WriteTimeout", "TimeoutException", "TransportError"}]

\* isinstance(exc, classes) for an exception named by its class
isinstance(exc, classes) ==
    exc \in DOMAIN HttpxClasses /\ HttpxClasses[exc] \cap classes # {}

\* _should_retry(status_code, exc): exc = "" stands for None, status_code 0
\* for None.
_should_retry_Always(status_code, exc) == TRUE
_should_retry(status_code, exc) ==
    IF exc # "" THEN isinstance(exc, TransientErrors)
    ELSE IF status_code = 0 THEN FALSE
    ELSE IF status_code \in {408, 429} THEN TRUE
    ELSE IF 500 <= status_code /\ status_code <= 599 THEN TRUE
    ELSE FALSE

\* resp.raise_for_status(): TRUE when it raises HTTPStatusError, which
\* httpx does for every status that is not a 2xx.
raise_for_status(status) == ~(200 <= status /\ status <= 299)

\* attempts = 1 + max(0, HTTP_RETRIES)
attempts(cfg) == 1 + Max(0, cfg.HTTP_RETRIES)

\* The exception object a failed attempt leaves behind.
NoError == [type |-> "", status |-> 0]
HTTPStatusError(status) == [type |-> "HTTPStatusError", status |-> status]
ErrorOf(r) ==
    IF r.exc # "" THEN [type |-> r.exc, status |-> 0]
    ELSE HTTPStatusError(r.status)
ValueError == [type |-> "ValueError", status |-> 0]

\* _ensure_list_of_dicts(data)
_ensure_list_of_dicts(data) ==
    IF \E i \in DOMAIN data : ~data[i].dict
    THEN [raised |-> TRUE, out |-> <<>>]
    ELSE [raised |-> FALSE, out |-> data]

\* Truthiness of a nextPageToken value: None and "" are falsy.
TokenTruthy(token) == token # NoToken /\ token[1] # ""

\* _sleep_backoff(attempt_idx, base): the delay handed to time.sleep, in
\* tenths of a second.
_sleep_backoff(attempt_idx, base) == base * (2 ^ attempt_idx)

\* ---- the replies the catalog server may give ----
B_list == Body("list", FALSE, <<Item("x")>>, NoToken)
B_more == Body("dict", TRUE, <<Item("a")>>, <<"t2">>)
B_more2 == Body("dict", TRUE, <<Item("d"), Item("e")>>, <<"t3">>)
B_last == Body("dict", TRUE, <<Item("b")>>, NoToken)
B_emptytoken == Body("dict", TRUE, <<Item("c")>>, <<"">>)
B_baditem == Body("dict", TRUE, <<Item("a"), NotADict>>, <<"t2">>)
B_scalar == Body("scalar", FALSE, <<>>, NoToken)
B_notjson == Body("notjson", FALSE, <<>>, NoToken)

Bodies ==
    {B_list, B_more, B_more2, B_last, B_emptytoken, B_baditem, NoBody,
     B_scalar, B_notjson}

ErrorStatuses == {304, 400, 404, 408, 429, 503}

Replies ==
    {Reply(200, b) : b \in Bodies}
    \cup {Reply(s, NoBody) : s \in ErrorStatuses}
    \cup {Failure("ConnectError"), Failure("CloseError"), Failure("ReadTimeout")}

MaxRetries == 2
MaxPages == 3

LoaderConfigs ==
    [HTTP_RETRIES : -1 .. MaxRetries,
     HTTP_BACKOFF_BASE : {0, 4},
     API_MAX_PAGES : 0 .. MaxPages]

\* ---- one call of fetch_trails or fetch_trail_detail, step by step ----
\* ret holds the locals of the running call: i, last (the reply of the
\* latest request), items, next_token, pages of the code, and the records
\* sent (requests of the current _request_with_retry call), sleeps (the
\* delays it slept), raised (the exception it raised), calls (the _request_with_retry calls started), log (the
\* bodies of the pages read so far) and result.
Pending == [kind |-> "pending", items |-> <<>>, error |-> NoError]
Returns(kind, items) == [kind |-> kind, items |-> items, error |-> NoError]
Raises(err) == [kind |-> "raise", items |-> <<>>, error |-> err]

FreshCall ==
    [i |-> 0, sent |-> 0, sleeps |-> <<>>, last |-> NoReply,
     raised |-> NoError, calls |-> 1,
     pages |-> 0, items |-> <<>>, next_token |-> NoToken, log |-> <<>>,
     result |-> Pending]

\* One iteration of the loop of _request_with_retry up to its continue,
\* return or raise.
Request ==
    /\ pc = "request"
    /\ \E r \in Replies :
        LET caught == r.exc = "" \/ isinstance(r.exc, TransientErrors)
            retry == /\ caught
                     /\ _should_retry(r.status, r.exc)
                     /\ ret.i < attempts(arg.cfg) - 1
            st == [ret EXCEPT !.sent = @ + 1, !.last = r]
        IN  IF retry
            THEN /\ pc' = "backoff"
                 /\ ret' = st
            ELSE IF r.exc = "" /\ ~raise_for_status(r.status)
            THEN /\ pc' = "returned"
                 /\ ret' = st
            ELSE /\ pc' = "raised"
                 /\ ret' = [st EXCEPT !.raised = ErrorOf(r)]
    /\ UNCHANGED <<user_question, raw_trails, candidates, scored_candidates,
                   query_text, collection, max_results, ranked, reasons_by_id,
                   output, final_output, stages, arg, vindex>>

\* _sleep_backoff(i, HTTP_BACKOFF_BASE); continue
Backoff ==
    /\ pc = "backoff"
    /\ ret' = [ret EXCEPT
                 !.sleeps = Append(@, _sleep_backoff(ret.i,
                                       arg.cfg.HTTP_BACKOFF_BASE)),
                 !.i = @ + 1]
    /\ pc' = "request"
    /\ UNCHANGED <<user_question, raw_trails, candidates, scored_candidates,
                   query_text, collection, max_results, ranked, reasons_by_id,
                   output, final_output, stages, arg, vindex>>

\* The test of the while loop of fetch_trails with the locals of st: either
\* the next _request_with_retry call starts or the items are returned.
MorePages_NoLimit(st, cfg) == TokenTruthy(st.next_token)
MorePages(st, cfg) ==
    TokenTruthy(st.next_token) /\ st.pages < cfg.API_MAX_PAGES

\* The state and position after a page was read into st.
AfterPage(st, cfg) ==
    IF MorePages(st, cfg)
    THEN [pc |-> "request",
          st |-> [st EXCEPT !.i = 0, !.sent = 0, !.sleeps = <<>>,
                            !.calls = @ + 1]]
    ELSE [pc |-> "done",
          st |-> [st EXCEPT !.result = Returns("list", st.items)]]

Fail(st, err) == [pc |-> "failed", st |-> [st EXCEPT !.result = Raises(err)]]

\* fetch_trails, lines 180-215: the first page.
first_page(st, cfg) ==
    LET data == st.last.body
        checked == _ensure_list_of_dicts(data.items)
    IN  IF data.kind = "notjson" THEN Fail(st, ValueError)
        ELSE IF data.kind = "list"
        THEN IF checked.raised THEN Fail(st, ValueError)
             ELSE [pc |-> "done",
                   st |-> [st EXCEPT !.result = Returns("list", checked.out)]]
        ELSE IF data.kind = "dict" /\ data.has_items
        THEN IF checked.raised THEN Fail(st, ValueError)
             ELSE AfterPage([st EXCEPT !.items = checked.out,
                                       !.next_token = data.token,
                                       !.pages = 1,
                                       !.log = <<data>>], cfg)
        ELSE Fail(st, ValueError)

\* fetch_trails, lines 197-210: a further page.
next_page(st, cfg) ==
    LET page_data == st.last.body
        checked == _ensure_list_of_dicts(page_data.items)
        token == IF page_data.kind = "dict" THEN page_data.token ELSE NoToken
    IN  IF page_data.kind = "notjson" THEN Fail(st, ValueError)
        ELSE IF page_data.kind \in {"list", "dict"} /\ checked.raised
        THEN Fail(st, ValueError)
        ELSE AfterPage([st EXCEPT !.items = @ \o checked.out,
                                  !.next_token = token,
                                  !.pages = @ + 1,
                                  !.log = Append(@, page_data)], cfg)

FirstPage ==
    /\ pc = "returned"
    /\ arg.fn = "fetch_trails"
    /\ ret.calls = 1
    /\ pc' = first_page(ret, arg.cfg).pc
    /\ ret' = first_page(ret, arg.cfg).st
    /\ UNCHANGED <<user_question, raw_trails, candidates, scored_candidates,
                   query_text, collection, max_results, ranked, reasons_by_id,
                   output, final_output, stages, arg, vindex>>

NextPage ==
    /\ pc = "returned"
    /\ arg.fn = "fetch_trails"
    /\ ret.calls > 1
    /\ pc' = next_page(ret, arg.cfg).pc
    /\ ret' = next_page(ret, arg.cfg).st
    /\ UNCHANGED <<user_question, raw_trails, candidates, scored_candidates,
                   query_text, collection, max_results, ranked, reasons_by_id,
                   output, final_output, stages, arg, vindex>>

\* An exception of _request_with_retry leaves fetch_trails.
Propagate ==
    /\ pc = "raised"
    /\ arg.fn = "fetch_trails"
    /\ pc' = "failed"
    /\ ret' = [ret EXCEPT !.result = Raises(ret.raised)]
    /\ UNCHANGED <<user_question, raw_trails, candidates, scored_candidates,
                   query_text, collection, max_results, ranked, reasons_by_id,
                   output, final_output, stages, arg, vindex>>

\* fetch_trail_detail, lines 227-231: the except clause.
detail_except_AnyStatus(err) ==
    IF err.type = "HTTPStatusError"
    THEN Returns("None", <<>>)
    ELSE Raises(err)
detail_except(err) ==
    IF err.type = "HTTPStatusError" /\ err.status = 404
    THEN Returns("None", <<>>)
    ELSE Raises(err)

\* fetch_trail_detail, lines 233-236.
detail_data(data) ==
    IF data.kind = "dict" THEN Returns("dict", data.items)
    ELSE Raises(ValueError)

Detail ==
    /\ pc \in {"returned", "raised"}
    /\ arg.fn = "fetch_trail_detail"
    /\ LET result == IF pc = "raised" THEN detail_except(ret.raised)
                     ELSE detail_data(ret.last.body)
       IN  /\ ret' = [ret EXCEPT !.result = result]
           /\ pc' = IF result.kind = "raise" THEN "failed" ELSE "done"
    /\ UNCHANGED <<user_question, raw_trails, candidates, scored_candidates,
                   query_text, collection, max_results, ranked, reasons_by_id,
                   output, final_output, stages, arg, vindex>>

InitLoader ==
    /\ pc = "request"
    /\ arg \in [fn : {"fetch_trails", "fetch_trail_detail"},
                 cfg : LoaderConfigs]
    /\ ret = FreshCall
    /\ vindex = <<>>
    /\ IdleRun

NextLoader == Request \/ Backoff \/ FirstPage \/ NextPage \/ Propagate \/ Detail

SpecLoader == InitLoader /\ [][NextLoader]_vars

\* The client runs one call to its end: every step that is enabled is taken.
SpecLoaderLive == SpecLoader /\ WF_vars(NextLoader)

\* ---- claims on the catalog client ----
RetryableFailure(r) ==
    \/ isinstance(r.exc, TransientErrors)
    \/ r.exc = "" /\ (r.status \in {408, 429} \/ r.status \in 500 .. 599)

SuccessReply(r) == r.exc = "" /\ r.status \in 200 .. 299

RequestBudget(cfg) == IF cfg.HTTP_RETRIES > 0 THEN 1 + cfg.HTTP_RETRIES ELSE 1

\* C21: one call of _request_with_retry sends at most 1 + max(0,
\* HTTP_RETRIES) requests; a further request follows only a retryable
\* failure and a backoff sleep; the first successful response is returned,
\* an error response never is, and a call whose attempts all fail raises the
\* failure of its last request.
C21_RequestWithRetry ==
    /\ [](ret.sent <= RequestBudget(arg.cfg))
    /\ [][(ret'.sent = ret.sent + 1 /\ ret.sent >= 1) =>
              /\ RetryableFailure(ret.last)
              /\ Len(ret.sleeps) = ret.sent
              /\ ret.sleeps[ret.sent] >= 0]_vars
    /\ [][(pc = "request" /\ SuccessReply(ret'.last)) =>
              pc' = "returned"]_vars
    /\ [](pc = "returned" => SuccessReply(ret.last))
    /\ [](pc = "raised" =>
              /\ ~SuccessReply(ret.last)
              /\ ret.raised = ErrorOf(ret.last)
              /\ (RetryableFailure(ret.last) =>
                      ret.sent = RequestBudget(arg.cfg)))

C21_Witness ==
    /\ pc = "returned"
    /\ arg.cfg.HTTP_RETRIES = 2
    /\ ret.sent = 3
    /\ ret.sleeps = <<4, 8>>

C21_WitnessExhausted ==
    /\ pc = "raised"
    /\ arg.cfg.HTTP_RETRIES = 1
    /\ ret.sent = 2
    /\ ret.raised = HTTPStatusError(503)

RECURSIVE ItemsOfPages(_)
ItemsOfPages(log) ==
    IF log = <<>> THEN <<>>
    ELSE ItemsOfPages(SubSeq(log, 1, Len(log) - 1)) \o log[Len(log)].items

CarriesToken(page) == page.kind = "dict" /\ page.token # NoToken

\* C22: for a paginated response fetch_trails returns the items of the
\* pages it read, concatenated in page order; it reads no page after one
\* without a nextPageToken; for API_MAX_PAGES >= 1 it requests at most
\* API_MAX_PAGES pages; and every call ends.
C22_FetchTrails ==
    /\ [](arg.fn = "fetch_trails" =>
              /\ (pc = "done" /\ ret.log # <<>>) =>
                     /\ ret.result.kind = "list"
                     /\ ret.result.items = ItemsOfPages(ret.log)
              /\ \A k \in 1 .. Len(ret.log) - 1 : CarriesToken(ret.log[k])
              /\ arg.cfg.API_MAX_PAGES >= 1 =>
                     ret.calls <= arg.cfg.API_MAX_PAGES)
    /\ <>(pc \in {"done", "failed"})

C22_Witness ==
    /\ arg.fn = "fetch_trails"
    /\ pc = "done"
    /\ arg.cfg.API_MAX_PAGES = 3
    /\ ret.calls = 3
    /\ TokenTruthy(ret.next_token)
    /\ ret.result.items = <<Item("a"), Item("d"), Item("e"), Item("a")>>

NonRetryable4xx(r) ==
    r.exc = "" /\ r.status \in 400 .. 499 /\ r.status \notin {408, 429}

\* C23: a 4xx reply other than 408 and 429 makes _request_with_retry raise
\* its HTTPStatusError at once, with no sleep and no further request, so
\* after exactly one request when it answers the first one;
\* fetch_trail_detail returns None for a 404 and raises every other HTTP
\* error unchanged.
C23_NonRetryable ==
    /\ [][(pc = "request" /\ NonRetryable4xx(ret'.last)) =>
              /\ pc' = "raised"
              /\ ret'.raised = HTTPStatusError(ret'.last.status)
              /\ ret'.sleeps = ret.sleeps
              /\ ret'.sent = ret.sent + 1]_vars
    /\ [][pc = "raised" => (ret'.sent = ret.sent /\ ret'.sleeps = ret.sleeps)]_vars
    /\ []((pc \in {"raised", "failed", "done"} /\ ret.i = 0
              /\ NonRetryable4xx(ret.last)) =>
              (ret.sent = 1 /\ ret.sleeps = <<>>))
    /\ []((arg.fn = "fetch_trail_detail" /\ pc \in {"done", "failed"}
              /\ ret.raised.type = "HTTPStatusError") =>
              IF ret.raised.status = 404
              THEN pc = "done" /\ ret.result = Returns("None", <<>>)
              ELSE pc = "failed" /\ ret.result = Raises(ret.raised))

C23_Witness ==
    /\ arg.fn = "fetch_trail_detail"
    /\ arg.cfg.HTTP_RETRIES = 2
    /\ pc = "done"
    /\ ret.result.kind = "None"
    /\ ret.sent = 1
    /\ ret.sleeps = <<>>

-----------------------------------------------------------------------------
(* Further claims on rank()                                                *)

\* the scores an input entry carries on a single path
SinglePathScores(e) ==
    (IF e.score_semantic # NoScore THEN {e.score_semantic[1]} ELSE {})
    \cup (IF e.score_bm25 # NoScore THEN {e.score_bm25[1]} ELSE {})

\* C24: the base score of every entry is its score_combined when it carries
\* one, else a single-path score it carries (semantic or lexical), and 0
\* only when it carries no score at all.
C24_BaseScore ==
    pc = "rank_done" =>
        LET e == EnrichedIn
        IN \A j \in DOMAIN e :
              IF e[j].score_combined # NoScore
              THEN e[j].base_score = e[j].score_combined[1]
              ELSE IF SinglePathScores(e[j]) # {}
              THEN e[j].base_score \in SinglePathScores(e[j])
              ELSE e[j].base_score = 0

\* the conditions of the three boosts, stated on the candidate's fields
TextHasToken(text, tok) == Contains(Casefold(_strip_accents(text)), tok)

TitleDescMatches(cand, q_tokens) ==
    \E k \in DOMAIN q_tokens :
        /\ Len(q_tokens[k]) > 2
        /\ \/ TextHasToken(cand.title, q_tokens[k])
           \/ TextHasToken(cand.description, q_tokens[k])
           \/ TextHasToken(cand.combined_text, q_tokens[k])

TagsMatch(cand, q_tokens) ==
    \E t \in DOMAIN cand.tags :
        Range(_tokenize(cand.tags[t])) \cap Range(q_tokens) # {}

\* Beginner as from_source writes it or lower-cased by the normalizer
IsBeginner(cand) == cand.difficulty \in {"Beginner", "beginner"}

ExpectedBoosts(cand, q_tokens) ==
    (IF TitleDescMatches(cand, q_tokens) THEN <<"title_desc_match">> ELSE <<>>)
    \o (IF TagsMatch(cand, q_tokens) THEN <<"tag_match">> ELSE <<>>)
    \o (IF IsBeginner(cand) THEN <<"beginner_boost">> ELSE <<>>)

BoostAmount(label) ==
    IF label = "title_desc_match" THEN TITLE_DESC_BOOST
    ELSE IF label = "tag_match" THEN TAG_BOOST
    ELSE BEGINNER_BOOST

\* the float sum of a base score and the amounts of the listed boosts, added one
\* after the other in the order of the list
RECURSIVE SumBoosts(_, _)
SumBoosts(acc, labels) ==
    IF labels = <<>> THEN acc
    ELSE SumBoosts(FloatAdd(acc, Dec(BoostAmount(Head(labels)))), Tail(labels))

FloatMin(x, y) == IF FloatLess(y, x) THEN y ELSE x
FloatMax(x, y) == IF FloatLess(x, y) THEN y ELSE x

BoostsAsClaimed(e, q_tokens) ==
    /\ e.applied_boosts = ExpectedBoosts(e.candidate, q_tokens)
    /\ e.match_score =
           FloatMax(Dec(0),
                    FloatMin(Dec(100),
                             FloatMin(Dec(SCORE_CAP),
                                      SumBoosts(Dec(e.base_score),
                                                e.applied_boosts))))
    /\ (/\ IsBeginner(e.candidate)
        /\ TitleDescMatches(e.candidate, q_tokens)
        /\ TagsMatch(e.candidate, q_tokens)) =>
           e.applied_boosts = <<"title_desc_match", "tag_match", "beginner_boost">>

\* C25: applied_boosts lists exactly the boosts whose condition holds, in
\* the order title_desc_match, tag_match, beginner_boost; match_score is
\* the base score plus the amounts of those boosts (the float sum, the
\* amounts added in that order), capped at SCORE_CAP and clamped to [0, 1];
\* a Beginner candidate whose title and tags match the query has all three.
C25_Boosts ==
    pc = "rank_done" =>
        LET e == EnrichedIn
            q_tokens == _tokenize(query_text)
        IN /\ \A j \in DOMAIN e : BoostsAsClaimed(e[j], q_tokens)
           /\ \A i \in DOMAIN ranked : BoostsAsClaimed(ranked[i], q_tokens)

\* a run that returns an entry with all three boosts, one with the tag boost
\* alone and one with none
C25_Witness ==
    /\ pc = "rank_done"
    /\ \E i \in DOMAIN ranked :
          ranked[i].applied_boosts =
              <<"title_desc_match", "tag_match", "beginner_boost">>
    /\ \E i \in DOMAIN ranked : ranked[i].applied_boosts = <<"tag_match">>
    /\ LET e == EnrichedIn
       IN \E j \in DOMAIN e : e[j].applied_boosts = <<>>

-----------------------------------------------------------------------------
(* reco/indexer.py : _normalize_scores                                     *)

\* Scores are integers (hundredths). The result of the scaling is a rational
\* array kept exact: the element i is num[i] / den. An array returned as it
\* came has den = 1 and unchanged = TRUE; den = 0 stands for a division by
\* zero.
SeqMin(s) == CHOOSE x \in Range(s) : \A y \in Range(s) : x <= y
SeqMax(s) == CHOOSE x \in Range(s) : \A y \in Range(s) : x >= y

Unscaled(scores) == [unchanged |-> TRUE, den |-> 1, num |-> scores]

\* lines 78-80: the scaling, whatever the guards before it
Scaled(scores, min_val, max_val) ==
    LET s_min == SeqMin(scores)
        s_max == SeqMax(scores)
        den == IF (s_max - s_min) = 0 THEN s_max - min_val ELSE s_max - s_min
    IN [unchanged |-> FALSE,
        den |-> den,
        num |-> [i \in DOMAIN scores |->
                    (scores[i] - s_min) * (max_val - min_val) + min_val * den]]

\* _normalize_scores without the guards of lines 71-77
_normalize_scores_NoGuard(scores, min_val, max_val) ==
    IF Len(scores) = 0 THEN Unscaled(scores)
    ELSE Scaled(scores, min_val, max_val)

\* _normalize_scores(scores, min_val, max_val)
_normalize_scores(scores, min_val, max_val) ==
    IF Len(scores) = 0 THEN Unscaled(scores)
    ELSE IF Cardinality(Range(scores)) <= 1 THEN Unscaled(scores)
    ELSE IF SeqMax(scores) <= SeqMin(scores) THEN Unscaled(scores)
    ELSE Scaled(scores, min_val, max_val)

\* longest score array
MaxScores == 3

ScoreValues == {0, 25, 50, 100}

\* [min_val, max_val]: the default range of the signature and two others
ScaleRanges == {<<0, 100>>, <<20, 80>>, <<-50, 50>>}

NormalizeScores ==
    /\ pc = "normalize_call"
    /\ ret' = _normalize_scores(arg.scores, arg.min_val, arg.max_val)
    /\ pc' = "normalize_done"
    /\ UNCHANGED <<user_question, raw_trails, candidates, scored_candidates,
                   query_text, collection, max_results, ranked, reasons_by_id,
                   output, final_output, stages, arg, vindex>>

InitScale ==
    /\ pc = "normalize_call"
    /\ \E s \in SeqsUpTo(ScoreValues, MaxScores), r \in ScaleRanges :
          arg = [scores |-> s, min_val |-> r[1], max_val |-> r[2]]
    /\ ret = Unscaled(<<>>)
    /\ vindex = <<>>
    /\ IdleRun

NextScale == NormalizeScores

SpecScale == InitScale /\ [][NextScale]_vars

\* C26: an empty, one-element or constant array is returned unchanged; no
\* call divides by zero; an array with two distinct values or more comes
\* back with minimum min_val, maximum max_val and its elements in the same
\* relative order.
C26_MinMax ==
    pc = "normalize_done" =>
        /\ ret.den # 0
        /\ Len(ret.num) = Len(arg.scores)
        /\ IF Cardinality(Range(arg.scores)) <= 1
           THEN ret = Unscaled(arg.scores)
           ELSE /\ ret.den > 0
                /\ \E i \in DOMAIN ret.num : ret.num[i] = arg.min_val * ret.den
                /\ \E i \in DOMAIN ret.num : ret.num[i] = arg.max_val * ret.den
                /\ \A i \in DOMAIN ret.num :
                      /\ arg.min_val * ret.den <= ret.num[i]
                      /\ ret.num[i] <= arg.max_val * ret.den
                /\ \A i, j \in DOMAIN ret.num :
                      /\ (arg.scores[i] < arg.scores[j]) <=> (ret.num[i] < ret.num[j])
                      /\ (arg.scores[i] = arg.scores[j]) <=> (ret.num[i] = ret.num[j])

\* three scores, two of them equal, scaled into [0.2, 0.8]
C26_Witness ==
    /\ pc = "normalize_done"
    /\ arg.scores = <<25, 100, 25>>
    /\ arg.min_val = 20 /\ arg.max_val = 80
    /\ ~ret.unchanged
    /\ ret.den = 75
    /\ ret.num = <<20 * 75, 80 * 75, 20 * 75>>

\* a constant array whose value is min_val, returned as it came
C26_WitnessConstant ==
    /\ pc = "normalize_done"
    /\ arg.scores = <<0, 0>>
    /\ arg.min_val = 0
    /\ ret = Unscaled(<<0, 0>>)

-----------------------------------------------------------------------------
(* SpecReason: make_reason() applied to bounded candidates and queries     *)

d_curtas == <<"A","u","l","a","s"," ","c","u","r","t","a","s">>
d_todos ==
    <<"E","x","e","r","c","i'","c","i","o","s",","," ","v","i'","d","e","o",
      " ","e"," ","q","u","i","z"," ","c","u","r","t","o">>
d_videos_quiz == <<"V","i'","d","e","o","s"," ","e"," ","q","u","i","z">>

\* a tag longer than the 180 characters allowed: "BI", a word of LongWord
\* letters that ends at character 176 of the reason, a space and a second
\* word
LongWord == 161
LongTag ==
    <<"B", "I", " ">> \o [i \in 1..LongWord |-> "x"] \o <<" ">>
    \o [i \in 1..40 |-> "y"]

ReasonTags ==
    {<<>>, <<t_BI>>, <<t_Zen, <<"b", "i">>, t_BI>>, <<t_Zen>>, <<LongTag>>}

ReasonCands ==
    {[CandD EXCEPT !.tags = tg, !.difficulty = df, !.description = ds] :
        tg \in ReasonTags,
        df \in {NoneStr, "Beginner", "beginner", "advanced"},
        ds \in {<<>>, d_curtas, d_todos, d_videos_quiz}}

ReasonQueries == {q_LogicaBI, t_Arte, <<>>}

\* make_reason(scored, query_text)
MakeReason ==
    /\ pc = "reason_call"
    /\ ret' = make_reason(arg.scored, arg.query_text)
    /\ pc' = "reason_done"
    /\ UNCHANGED <<user_question, raw_trails, candidates, scored_candidates,
                   query_text, collection, max_results, ranked, reasons_by_id,
                   output, final_output, stages, arg, vindex>>

InitReason ==
    /\ pc = "reason_call"
    /\ \E c \in ReasonCands, q \in ReasonQueries :
          arg = [scored |-> Scored(c, 75), query_text |-> q]
    /\ ret = <<>>
    /\ vindex = <<>>
    /\ IdleRun

NextReason == MakeReason

SpecReason == InitReason /\ [][NextReason]_vars

\* the tags of the candidate that share a token with the query, in order
MatchingTags(cand, q_tokens) ==
    LET hit(t) == Range(_tokenize(t)) \cap Range(q_tokens) # {}
    IN SeqFilter(cand.tags, hit)

LeadAsClaimed(cand, q_tokens) ==
    LET tags == MatchingTags(cand, q_tokens)
    IN IF tags # <<>> /\ IsBeginner(cand)
       THEN p_conecta_com \o tags[1] \o p_e_iniciante
       ELSE IF tags # <<>> THEN p_conecta_com \o tags[1]
       ELSE IF IsBeginner(cand) THEN p_porta_entrada
       ELSE p_combina

AllCues == {cue_aulas_curtas, cue_praticos, cue_videos, cue_quizzes}

\* the lists of at most 2 distinct cues
CueLists ==
    {<<>>} \cup {<<c>> : c \in AllCues}
    \cup {p \in AllCues \X AllCues : p[1] # p[2]}

WithCues(lead, cues) ==
    IF cues = <<>> THEN lead
    ELSE lead \o p_dash \o Join(<<",", " ">>, cues)

\* reason is text itself, or text cut to at most 180 characters and ended
\* by "..." when text is longer
CutTo180(text, reason) ==
    IF Len(text) <= 180 THEN reason = text
    ELSE /\ Len(reason) <= 180
         /\ Len(reason) > 3
         /\ SubSeq(reason, Len(reason) - 2, Len(reason)) = <<".", ".", ".">>
         /\ SubSeq(reason, 1, Len(reason) - 3)
                = SubSeq(text, 1, Len(reason) - 3)

\* C27: the lead phrase of make_reason follows the priority matching tag
\* (in its original spelling) with beginner, matching tag, beginner,
\* generic; at most 2 distinct cues follow it; the result is never empty and
\* never longer than 180 characters.
C27_Reason ==
    pc = "reason_done" =>
        LET lead == LeadAsClaimed(arg.scored.candidate,
                                  _tokenize(arg.query_text))
        IN /\ ret # <<>>
           /\ Len(ret) <= 180
           /\ \E cues \in CueLists : CutTo180(WithCues(lead, cues), ret)

\* a tag found in the query after a tag that is not, in its own spelling,
\* on a beginner candidate with four cues in its description
C27_Witness ==
    /\ pc = "reason_done"
    /\ arg.scored.candidate.tags = <<t_Zen, <<"b", "i">>, t_BI>>
    /\ arg.scored.candidate.difficulty = "beginner"
    /\ arg.scored.candidate.description = d_todos
    /\ arg.query_text = q_LogicaBI
    /\ ret = p_conecta_com \o <<"b", "i">> \o p_e_iniciante \o p_dash
                \o cue_aulas_curtas \o <<",", " ">> \o cue_praticos

\* a reason cut to 180 characters
C27_WitnessCut ==
    /\ pc = "reason_done"
    /\ arg.scored.candidate.tags = <<LongTag>>
    /\ Len(ret) \in 178 .. 180
    /\ SubSeq(ret, Len(ret) - 2, Len(ret)) = <<".", ".", ".">>

\* items with the entries at positions i and i + 1 exchanged
SwapAt(items, i) ==
    [k \in DOMAIN items |->
        IF k = i THEN items[i + 1] ELSE IF k = i + 1 THEN items[i] ELSE items[k]]

\* what the claim compares of a returned list: candidate and match_score at
\* every position
Shown(entries) ==
    [k \in DOMAIN entries |->
        [candidate |-> entries[k].candidate,
         match_score |-> entries[k].match_score]]

\* C28: rank() returns the same candidates with the same match_score at the
\* same positions for every permutation of its input, entries that share a
\* publicId included. The inputs of SpecRank are closed under permutation,
\* so exchanging two neighbours in every input covers every permutation.
C28_OrderIndependent ==
    pc = "rank_done" =>
        \A i \in 1 .. Len(scored_candidates) - 1 :
            Shown(rank(SwapAt(scored_candidates, i), query_text, collection,
                       max_results)) = Shown(ranked)

-----------------------------------------------------------------------------
(* Further claims on the pipeline and the vector index                     *)

\* a raw record the schema accepts whose status is in the allow-list
AllowedRecord(r) ==
    /\ Accepted(r)
    /\ StatusAllowed(from_source(r).cand, ALLOWED_STATUS)

\* C29: every identifier that has an accepted raw record with an allowed
\* status is among the candidates handed to retrieval, whatever the other
\* raw records of that identifier are.
C29_AllowedSurvives ==
    pc \notin {"run_start", "raised"} =>
        \A i \in DOMAIN raw_trails :
            AllowedRecord(raw_trails[i]) =>
                \E j \in DOMAIN candidates :
                    candidates[j].publicId = AcceptedIdOf(raw_trails[i])

MetaIds(ix) == {ix.meta[i][1] : i \in DOMAIN ix.meta}

\* the (id, row) pairs of an index in the order of its id list
Rows(ix) == [i \in DOMAIN ix.ids |-> <<ix.ids[i], ix.matrix[i]>>]

\* C30: in every state the ids with metadata are the ids of the id list and
\* the matrix has one row per entry of the id list, in its order; a search
\* and a call that raised leave the index as it was; a delete removes the
\* named ids, all of them and no other, and keeps row and metadata of every
\* other id.
C30_IndexInvariants ==
    \A b \in {"np", "fa"} :
        LET ix == vindex[b]
            was == ret.before[b]
            named(p) == p[1] \in IdSet(arg.ids)
            other(p) == ~named(p)
        IN /\ MetaIds(ix) = IdSet(ix.ids)
           /\ DOMAIN ix.matrix = DOMAIN ix.ids
           /\ \A i \in DOMAIN ix.matrix : Len(ix.matrix[i]) = Dim
           /\ (ret.call = "search" \/ ret.raised) => ix = was
           /\ ret.call = "delete" =>
                 /\ IdSet(ix.ids) = IdSet(was.ids) \ IdSet(arg.ids)
                 /\ Rows(ix) = SeqFilter(Rows(was), other)
                 /\ \A id \in IdSet(ix.ids) :
                       DictGet(ix.meta, id) = DictGet(was.meta, id)

\* a delete that names a stored id and an unknown one and leaves two ids
\* behind, followed by nothing else
C30_Witness ==
    /\ pc = "index"
    /\ ret.call = "delete"
    /\ \E i \in DOMAIN arg.ids : arg.ids[i] \in IdSet(ret.before.np.ids)
    /\ size(vindex.np) >= 2
    /\ size(vindex.fa) < size(ret.before.fa)

====
